---- MODULE Spec2Model ----
(***************************************************************************)
(* Transaction-Parser: the bank-format registry, the row normaliser, the   *)
(* Amazon reconciler, the category learner, the aggregator and the review  *)
(* session that drives them.                                               *)
(*                                                                         *)
(* Text is a tuple of one-character strings, so that strip(), lower(),     *)
(* replace() and the substring tests are computed, not assumed.  An amount *)
(* is an integer number of thousandths (1.234 is 1234); a date is a record *)
(* [y, m, d].  None is Python's None.                                      *)
(***************************************************************************)
EXTENDS Integers, Sequences, FiniteSets, TLC

VARIABLES
    BANK_FORMATS,                  \* bank_formats.py: the registry, in dict order
    amazon_orders,                 \* parser.amazon_orders
    matched_amazon_orders,         \* parser.matched_amazon_orders
    mappings,                      \* parser.mappings
    EXPENSE_CATEGORIES,            \* parser.EXPENSE_CATEGORIES
    INCOME_CATEGORIES,             \* parser.INCOME_CATEGORIES
    PAYMENT_CATEGORIES,            \* parser.PAYMENT_CATEGORIES
    store,                         \* the document at parser.mapping_file, or NoFile
    heap,                          \* the transaction objects (dicts), by identity
    all_transactions,              \* gui.all_transactions: identities, in list order
    pending_categorizations,       \* gui.pending_categorizations: identities
    current_categorization_index,  \* gui.current_categorization_index
    pool_loaded_at,                \* history: how many transaction objects existed when
                                   \* the order pool was last replaced
    class_defaults,                \* TransactionParser.DEFAULT_*_CATEGORIES: the lists of
                                   \* the class as they stand
    shared,                        \* which taxonomies of the parser are the list object of
                                   \* the class itself, not a list of their own
    call,                          \* the operation that ran last, with its arguments
    ret                            \* what that operation returned (or that it raised)

vars == <<BANK_FORMATS, amazon_orders, matched_amazon_orders, mappings,
          EXPENSE_CATEGORIES, INCOME_CATEGORIES, PAYMENT_CATEGORIES, store,
          heap, all_transactions, pending_categorizations,
          current_categorization_index, pool_loaded_at, class_defaults, shared,
          call, ret>>

registryVars == <<BANK_FORMATS>>
classVars == <<class_defaults, shared>>
parserVars == <<amazon_orders, matched_amazon_orders, mappings,
                EXPENSE_CATEGORIES, INCOME_CATEGORIES, PAYMENT_CATEGORIES, store,
                class_defaults, shared>>
guiVars == <<heap, all_transactions, pending_categorizations,
             current_categorization_index, pool_loaded_at>>

----------------------------------------------------------------------------
(* Python values *)

None == <<"None">>

\* F applied to the value of e: a Python local variable, computed once
With(e, F(_)) == CHOOSE y \in {F(x) : x \in {e}} : TRUE

\* what a call produced: a value, or an exception that was raised
Ok(v) == [ok |-> TRUE, val |-> v]
Raise(e) == [ok |-> FALSE, exc |-> e]

\* bool(x) of a text or None: None and the empty text are false
Truthy(x) == x # None /\ x # <<>>

----------------------------------------------------------------------------
(* str methods *)

Whitespace == {" ", "\t"}

UpperLetters == <<"A", "B", "C", "D", "E", "F", "G", "H", "I", "J", "K", "L", "M",
                  "N", "O", "P", "Q", "R", "S", "T", "U", "V", "W", "X", "Y", "Z">>
LowerLetters == <<"a", "b", "c", "d", "e", "f", "g", "h", "i", "j", "k", "l", "m",
                  "n", "o", "p", "q", "r", "s", "t", "u", "v", "w", "x", "y", "z">>

lower_char(c) ==
    IF \E i \in 1..26 : UpperLetters[i] = c
    THEN LowerLetters[CHOOSE i \in 1..26 : UpperLetters[i] = c]
    ELSE c

upper_char(c) ==
    IF \E i \in 1..26 : LowerLetters[i] = c
    THEN UpperLetters[CHOOSE i \in 1..26 : LowerLetters[i] = c]
    ELSE c

lower(s) == [i \in 1..Len(s) |-> lower_char(s[i])]
upper(s) == [i \in 1..Len(s) |-> upper_char(s[i])]

RECURSIVE lstrip(_)
lstrip(s) == IF s # <<>> /\ s[1] \in Whitespace THEN lstrip(Tail(s)) ELSE s

RECURSIVE rstrip(_)
rstrip(s) ==
    IF s # <<>> /\ s[Len(s)] \in Whitespace THEN rstrip(SubSeq(s, 1, Len(s) - 1)) ELSE s

strip(s) == rstrip(lstrip(s))

\* s.replace(c, '') for a one-character c
remove_char(s, c) == SelectSeq(s, LAMBDA x : x # c)

\* sub in s
contains(s, sub) ==
    \E i \in 1..(Len(s) - Len(sub) + 1) : SubSeq(s, i, i + Len(sub) - 1) = sub

startswith(s, p) == Len(s) >= Len(p) /\ SubSeq(s, 1, Len(p)) = p
endswith(s, p) == Len(s) >= Len(p) /\ SubSeq(s, Len(s) - Len(p) + 1, Len(s)) = p

----------------------------------------------------------------------------
(* float(text), in thousandths.  Covers the decimal notation               *)
(* [sign] digits [. digits] with at most three fractional digits, with     *)
(* surrounding whitespace; every other text of the model's alphabet raises *)
(* ValueError, as float() does.  Exponents, "inf", "nan" and "_" are not   *)
(* in the alphabet of the modelled inputs.                                 *)

DigitChars == <<"0", "1", "2", "3", "4", "5", "6", "7", "8", "9">>
IsDigit(c) == \E i \in 1..10 : DigitChars[i] = c
DigitVal(c) == (CHOOSE i \in 1..10 : DigitChars[i] = c) - 1

RECURSIVE IntOf(_)
IntOf(ds) == IF ds = <<>> THEN 0 ELSE 10 * IntOf(SubSeq(ds, 1, Len(ds) - 1)) + DigitVal(ds[Len(ds)])

AllDigits(ds) == \A i \in 1..Len(ds) : IsDigit(ds[i])

\* the fractional digits as thousandths
FracOf(ds) ==
    CASE Len(ds) = 0 -> 0
      [] Len(ds) = 1 -> 100 * IntOf(ds)
      [] Len(ds) = 2 -> 10 * IntOf(ds)
      [] OTHER -> IntOf(SubSeq(ds, 1, 3))

UnsignedFloat(t) ==
    LET dots == {i \in 1..Len(t) : t[i] = "."}
    IN  IF Cardinality(dots) > 1 THEN Raise("ValueError")
        ELSE LET p == IF dots = {} THEN Len(t) + 1 ELSE CHOOSE i \in dots : TRUE
                 whole == SubSeq(t, 1, p - 1)
                 frac == SubSeq(t, p + 1, Len(t))
             IN  IF Len(whole) + Len(frac) = 0 \/ Len(frac) > 3
                    \/ ~AllDigits(whole) \/ ~AllDigits(frac)
                 THEN Raise("ValueError")
                 ELSE Ok(1000 * IntOf(whole) + FracOf(frac))

float(text) ==
    With(strip(text), LAMBDA t :
        IF t = <<>> THEN Raise("ValueError")
        ELSE IF t[1] = "-"
             THEN With(UnsignedFloat(Tail(t)), LAMBDA u : IF u.ok THEN Ok(-u.val) ELSE u)
             ELSE IF t[1] = "+" THEN UnsignedFloat(Tail(t))
             ELSE UnsignedFloat(t))

abs(x) == IF x < 0 THEN -x ELSE x

----------------------------------------------------------------------------
(* datetime.strptime(text, format) for formats made of %Y, %m, %d and      *)
(* literal characters                                                      *)

IsLeap(y) == (y % 4 = 0 /\ y % 100 # 0) \/ y % 400 = 0

DaysInMonth(y, m) ==
    CASE m \in {4, 6, 9, 11} -> 30
      [] m = 2 -> IF IsLeap(y) THEN 29 ELSE 28
      [] OTHER -> 31

RECURSIVE DaysBeforeMonth(_, _)
DaysBeforeMonth(y, m) == IF m <= 1 THEN 0 ELSE DaysBeforeMonth(y, m - 1) + DaysInMonth(y, m - 1)

\* date.toordinal()
toordinal(dt) ==
    LET p == dt.y - 1
    IN  365 * p + (p \div 4) - (p \div 100) + (p \div 400) + DaysBeforeMonth(dt.y, dt.m) + dt.d

\* the directive's alternatives, longest first, as _strptime's regular expressions try them
DirectiveWidths(d) == IF d = "Y" THEN <<4>> ELSE <<2, 1>>

DirectiveOk(d, n, w) ==
    CASE d = "Y" -> TRUE
      [] d = "m" -> n \in 1..12
      [] d = "d" -> n \in 1..31
      [] OTHER -> FALSE

RECURSIVE strptime_match(_, _, _)
strptime_match(s, f, acc) ==
    IF f = <<>> THEN (IF s = <<>> THEN Ok(acc) ELSE Raise("ValueError"))
    ELSE IF f[1] = "%" /\ Len(f) >= 2
    THEN LET d == f[2]
             key == CASE d = "Y" -> "y" [] d = "m" -> "m" [] OTHER -> "d"
             try(w) ==
                 IF Len(s) >= w /\ AllDigits(SubSeq(s, 1, w))
                    /\ DirectiveOk(d, IntOf(SubSeq(s, 1, w)), w)
                 THEN strptime_match(SubSeq(s, w + 1, Len(s)), SubSeq(f, 3, Len(f)),
                                     [acc EXCEPT ![key] = IntOf(SubSeq(s, 1, w))])
                 ELSE Raise("ValueError")
             ws == DirectiveWidths(d)
         IN  IF d \notin {"Y", "m", "d"} THEN Raise("ValueError")
             ELSE With(try(ws[1]), LAMBDA first :
                      IF first.ok THEN first
                      ELSE IF Len(ws) > 1 THEN try(ws[2]) ELSE Raise("ValueError"))
    ELSE IF s # <<>> /\ s[1] = f[1]
    THEN strptime_match(Tail(s), Tail(f), acc)
    ELSE Raise("ValueError")

strptime(text, format) ==
    With(strptime_match(text, format, [y |-> 1900, m |-> 1, d |-> 1]), LAMBDA r :
        IF ~r.ok THEN r
        ELSE IF r.val.y < 1 \/ r.val.d > DaysInMonth(r.val.y, r.val.m) THEN Raise("ValueError")
        ELSE r)

----------------------------------------------------------------------------
(* dict: a sequence of [key, val] entries in insertion order; assigning an *)
(* existing key keeps its place                                            *)

DictHas(d, k) == \E i \in 1..Len(d) : d[i].key = k
DictGet(d, k) == d[CHOOSE i \in 1..Len(d) : d[i].key = k].val
DictSet(d, k, v) ==
    IF DictHas(d, k)
    THEN [i \in 1..Len(d) |-> IF d[i].key = k THEN [key |-> k, val |-> v] ELSE d[i]]
    ELSE Append(d, [key |-> k, val |-> v])
DictKeys(d) == {d[i].key : i \in 1..Len(d)}

\* a reference to an object or a number, or None in its place
Some(v) == [found |-> TRUE, val |-> v]
NotFound == [found |-> FALSE]

----------------------------------------------------------------------------
(* config/bank_formats.py *)

\* BankFormat.__init__ (the free-text description takes part in no operation)
BankFormat(name, date_col, desc_col, amount_col, debit_col, credit_col, date_format, invert_amounts, has_header) ==
    [name |-> name, date_col |-> date_col, desc_col |-> desc_col,
     amount_col |-> amount_col, debit_col |-> debit_col, credit_col |-> credit_col,
     date_format |-> date_format, invert_amounts |-> invert_amounts,
     has_header |-> has_header]

DefaultDateFormat == <<"%", "m", "/", "%", "d", "/", "%", "Y">>

AppleCard ==
    BankFormat(<<"A", "p", "p", "l", "e", " ", "C", "a", "r", "d">>, <<"T", "r", "a", "n", "s", "a", "c", "t", "i", "o", "n", " ", "D", "a", "t", "e">>, <<"M", "e", "r", "c", "h", "a", "n", "t">>, <<"A", "m", "o", "u", "n", "t", " ", "(", "U", "S", "D", ")">>, None, None,
               DefaultDateFormat, TRUE, TRUE)
CapitalOne ==
    BankFormat(<<"C", "a", "p", "i", "t", "a", "l", " ", "O", "n", "e">>, <<"T", "r", "a", "n", "s", "a", "c", "t", "i", "o", "n", " ", "D", "a", "t", "e">>, <<"D", "e", "s", "c", "r", "i", "p", "t", "i", "o", "n">>, None, <<"D", "e", "b", "i", "t">>, <<"C", "r", "e", "d", "i", "t">>,
               DefaultDateFormat, FALSE, TRUE)
Chase ==
    BankFormat(<<"C", "h", "a", "s", "e">>, <<"T", "r", "a", "n", "s", "a", "c", "t", "i", "o", "n", " ", "D", "a", "t", "e">>, <<"D", "e", "s", "c", "r", "i", "p", "t", "i", "o", "n">>, <<"A", "m", "o", "u", "n", "t">>, None, None,
               DefaultDateFormat, FALSE, TRUE)
WellsFargoBank ==
    BankFormat(<<"W", "e", "l", "l", "s", " ", "F", "a", "r", "g", "o", " ", "B", "a", "n", "k">>, <<"0">>, <<"4">>, <<"1">>, None, None,
               DefaultDateFormat, FALSE, FALSE)
Custom ==
    BankFormat(<<"C", "u", "s", "t", "o", "m">>, <<"D", "a", "t", "e">>, <<"D", "e", "s", "c", "r", "i", "p", "t", "i", "o", "n">>, <<"A", "m", "o", "u", "n", "t">>, None, None,
               DefaultDateFormat, FALSE, TRUE)

PredefinedFormats ==
    << [key |-> <<"a", "p", "p", "l", "e", "_", "c", "a", "r", "d">>, val |-> AppleCard],
       [key |-> <<"c", "a", "p", "i", "t", "a", "l", "_", "o", "n", "e">>, val |-> CapitalOne],
       [key |-> <<"c", "h", "a", "s", "e">>, val |-> Chase],
       [key |-> <<"w", "e", "l", "l", "s", "_", "f", "a", "r", "g", "o", "_", "b", "a", "n", "k">>, val |-> WellsFargoBank],
       [key |-> <<"c", "u", "s", "t", "o", "m">>, val |-> Custom] >>

get_bank_format(format_key) ==
    IF DictHas(BANK_FORMATS, lower(format_key))
    THEN Some(DictGet(BANK_FORMATS, lower(format_key)))
    ELSE NotFound

get_all_bank_names == [i \in 1..Len(BANK_FORMATS) |-> BANK_FORMATS[i].val.name]

RECURSIVE by_name_from(_, _)
by_name_from(i, name) ==
    IF i > Len(BANK_FORMATS) THEN NotFound
    ELSE IF lower(BANK_FORMATS[i].val.name) = lower(name) THEN Some(BANK_FORMATS[i].val)
    ELSE by_name_from(i + 1, name)

get_bank_format_by_name(name) == by_name_from(1, name)

\* the columns a format needs in the header row
required_cols(fmt) ==
    <<fmt.date_col, fmt.desc_col>> \o
    (IF Truthy(fmt.amount_col) THEN <<fmt.amount_col>>
     ELSE IF Truthy(fmt.debit_col) /\ Truthy(fmt.credit_col)
          THEN <<fmt.debit_col, fmt.credit_col>>
          ELSE <<>>)

\* the first pass without its filter on Custom and headerless formats
RECURSIVE header_pass_unfiltered(_, _)
header_pass_unfiltered(i, normalized_headers) ==
    IF i > Len(BANK_FORMATS) THEN NotFound
    ELSE LET fmt == BANK_FORMATS[i].val
             cols == required_cols(fmt)
         IN  IF \A c \in 1..Len(cols) :
                    \E h \in 1..Len(normalized_headers) : normalized_headers[h] = cols[c]
             THEN Some(fmt)
             ELSE header_pass_unfiltered(i + 1, normalized_headers)

\* the first pass of detect_bank_format_from_headers, from the i-th format on
RECURSIVE header_pass(_, _)
header_pass(i, normalized_headers) ==
    IF i > Len(BANK_FORMATS) THEN NotFound
    ELSE LET fmt == BANK_FORMATS[i].val
             cols == required_cols(fmt)
         IN  IF fmt.name = <<"C", "u", "s", "t", "o", "m">> \/ ~fmt.has_header
             THEN header_pass(i + 1, normalized_headers)
             ELSE IF \A c \in 1..Len(cols) :
                        \E h \in 1..Len(normalized_headers) : normalized_headers[h] = cols[c]
             THEN Some(fmt)
             ELSE header_pass(i + 1, normalized_headers)

\* the second pass: does the row look like (date, amount, *, *, description)?
headerless_pass(normalized_headers) ==
    IF Len(normalized_headers) >= 5
       /\ strptime(normalized_headers[1], <<"%", "m", "/", "%", "d", "/", "%", "Y">>).ok
       /\ float(remove_char(normalized_headers[2], ",")).ok
       /\ DictHas(BANK_FORMATS, <<"w", "e", "l", "l", "s", "_", "f", "a", "r", "g", "o", "_", "b", "a", "n", "k">>)
    THEN Some(DictGet(BANK_FORMATS, <<"w", "e", "l", "l", "s", "_", "f", "a", "r", "g", "o", "_", "b", "a", "n", "k">>))
    ELSE NotFound

detect_bank_format_from_headers(headers) ==
    IF headers = <<>> THEN NotFound
    ELSE LET normalized_headers == [i \in 1..Len(headers) |-> strip(headers[i])]
             first == header_pass(1, normalized_headers)
         IN  IF first.found THEN first ELSE headerless_pass(normalized_headers)

----------------------------------------------------------------------------
(* The registry on its own: formats are registered at run time, looked up  *)
(* and detected from header rows.                                          *)

MaxFormats == 6

MyBank ==
    BankFormat(<<"M", "y", "B", "a", "n", "k">>, <<"D", "a", "t", "e">>, <<"D", "e", "s", "c", "r", "i", "p", "t", "i", "o", "n">>, <<"A", "m", "o", "u", "n", "t">>, None, None,
               DefaultDateFormat, FALSE, TRUE)
\* a second format that calls itself Chase, with other columns
ChaseExport ==
    BankFormat(<<"C", "H", "A", "S", "E">>, <<"D", "a", "t", "e">>, <<"D", "e", "s", "c", "r", "i", "p", "t", "i", "o", "n">>, <<"A", "m", "o", "u", "n", "t">>, None, None,
               <<"%", "Y", "-", "%", "m", "-", "%", "d">>, TRUE, TRUE)
\* a headerless format whose selectors are header names of the Chase export
Positional ==
    BankFormat(<<"P", "o", "s", "i", "t", "i", "o", "n", "a", "l">>, <<"T", "r", "a", "n", "s", "a", "c", "t", "i", "o", "n", " ", "D", "a", "t", "e">>, <<"D", "e", "s", "c", "r", "i", "p", "t", "i", "o", "n">>, <<"A", "m", "o", "u", "n", "t">>, None, None,
               DefaultDateFormat, FALSE, FALSE)
\* a format with a debit column and nothing else to read the amount from
DebitOnly ==
    BankFormat(<<"D", "e", "b", "i", "t", " ", "O", "n", "l", "y">>, <<"T", "r", "a", "n", "s", "a", "c", "t", "i", "o", "n", " ", "D", "a", "t", "e">>, <<"D", "e", "s", "c", "r", "i", "p", "t", "i", "o", "n">>, None, <<"D", "e", "b", "i", "t">>, None,
               DefaultDateFormat, FALSE, TRUE)

RegistrableFormats == {MyBank, ChaseExport, Positional, DebitOnly, Custom}
RegistryKeys == {<<"c", "h", "a", "s", "e">>, <<"C", "H", "A", "S", "E">>, <<"M", "y", "B", "a", "n", "k">>}
LookupNames == {<<"C", "h", "a", "s", "e">>, <<"c", "h", "a", "s", "e">>, <<"C", "H", "A", "S", "E">>, <<"m", "y", "b", "a", "n", "k">>, <<"M", "y", "B", "a", "n", "k">>, <<"C", "u", "s", "t", "o", "m">>, <<"N", "o", "b", "o", "d", "y">>}

HeaderRows ==
    { <<>>,
      <<<<"T", "r", "a", "n", "s", "a", "c", "t", "i", "o", "n", " ", "D", "a", "t", "e">>, <<"D", "e", "s", "c", "r", "i", "p", "t", "i", "o", "n">>, <<"A", "m", "o", "u", "n", "t">>>>,
      <<<<" ", "T", "r", "a", "n", "s", "a", "c", "t", "i", "o", "n", " ", "D", "a", "t", "e", " ">>, <<"D", "e", "s", "c", "r", "i", "p", "t", "i", "o", "n", "\t">>, <<" ", "A", "m", "o", "u", "n", "t">>>>,
      <<<<"T", "r", "a", "n", "s", "a", "c", "t", "i", "o", "n", " ", "D", "a", "t", "e">>, <<"M", "e", "r", "c", "h", "a", "n", "t">>, <<"A", "m", "o", "u", "n", "t", " ", "(", "U", "S", "D", ")">>>>,
      <<<<"T", "r", "a", "n", "s", "a", "c", "t", "i", "o", "n", " ", "D", "a", "t", "e">>, <<"D", "e", "s", "c", "r", "i", "p", "t", "i", "o", "n">>, <<"D", "e", "b", "i", "t">>, <<"C", "r", "e", "d", "i", "t">>>>,
      <<<<"T", "r", "a", "n", "s", "a", "c", "t", "i", "o", "n", " ", "D", "a", "t", "e">>, <<"D", "e", "s", "c", "r", "i", "p", "t", "i", "o", "n">>, <<"A", "m", "o", "u", "n", "t">>, <<"D", "e", "b", "i", "t">>, <<"C", "r", "e", "d", "i", "t">>>>,
      <<<<"T", "r", "a", "n", "s", "a", "c", "t", "i", "o", "n", " ", "D", "a", "t", "e">>, <<"D", "e", "s", "c", "r", "i", "p", "t", "i", "o", "n">>>>,
      <<<<"D", "a", "t", "e">>, <<"D", "e", "s", "c", "r", "i", "p", "t", "i", "o", "n">>, <<"A", "m", "o", "u", "n", "t">>>>,
      <<<<"0", "1", "/", "1", "5", "/", "2", "0", "2", "4">>, <<"-", "1", ",", "0", "5", "4", ".", "3", "2">>, <<"*">>, <<>>, <<"W", "H", "O", "L", "E", " ", "F", "O", "O", "D", "S">>>>,
      <<<<"0", "1", "/", "1", "5", "/", "2", "0", "2", "4">>, <<"n", "/", "a">>, <<"*">>, <<>>, <<"W", "H", "O", "L", "E", " ", "F", "O", "O", "D", "S">>>>,
      <<<<"2", "0", "2", "4", "-", "0", "1", "-", "1", "5">>, <<"-", "5", "4", ".", "3", "2">>, <<"*">>, <<>>, <<"W", "H", "O", "L", "E", " ", "F", "O", "O", "D", "S">>>>,
      <<<<"0", "1", "/", "1", "5", "/", "2", "0", "2", "4">>, <<"-", "5", "4", ".", "3", "2">>, <<"W", "H", "O", "L", "E", " ", "F", "O", "O", "D", "S">>>> }

AddCustomFormat ==
    \E key \in RegistryKeys, format_config \in RegistrableFormats :
        /\ Len(DictSet(BANK_FORMATS, key, format_config)) <= MaxFormats
        /\ BANK_FORMATS' = DictSet(BANK_FORMATS, key, format_config)
        /\ call' = [op |-> "add_custom_format", key |-> key, fmt |-> format_config]
        /\ ret' = Ok(None)
        /\ UNCHANGED <<parserVars, guiVars>>

GetBankFormat ==
    \E key \in RegistryKeys \cup {<<"m", "y", "b", "a", "n", "k">>} :
        /\ call' = [op |-> "get_bank_format", key |-> key]
        /\ ret' = Ok(get_bank_format(key))
        /\ UNCHANGED <<registryVars, parserVars, guiVars>>

GetBankFormatByName ==
    \E name \in LookupNames :
        /\ call' = [op |-> "get_bank_format_by_name", name |-> name]
        /\ ret' = Ok(get_bank_format_by_name(name))
        /\ UNCHANGED <<registryVars, parserVars, guiVars>>

\* a detection that takes the format it finds out of the registry
DetectBankFormatFromHeadersOnce ==
    \E headers \in HeaderRows :
        LET detected == detect_bank_format_from_headers(headers)
            IsOther(entry) == ~detected.found \/ entry.val # detected.val
        IN  /\ call' = [op |-> "detect_bank_format_from_headers", headers |-> headers]
            /\ ret' = Ok(detected)
            /\ BANK_FORMATS' = SelectSeq(BANK_FORMATS, IsOther)
            /\ UNCHANGED <<parserVars, guiVars>>

DetectBankFormatFromHeaders ==
    \E headers \in HeaderRows :
        /\ call' = [op |-> "detect_bank_format_from_headers", headers |-> headers]
        /\ ret' = Ok(detect_bank_format_from_headers(headers))
        /\ UNCHANGED <<registryVars, parserVars, guiVars>>

----------------------------------------------------------------------------
(* core/parser.py: TransactionParser *)

IGNORE_CATEGORY == <<"I", "g", "n", "o", "r", "e">>
Uncategorized == <<"U", "n", "c", "a", "t", "e", "g", "o", "r", "i", "z", "e", "d">>

DEFAULT_EXPENSE_CATEGORIES ==
    <<<<"R", "e", "n", "t">>, <<"B", "i", "l", "l", "s", " ", "&", " ", "U", "t", "i", "l", "i", "t", "i", "e", "s">>, <<"G", "r", "o", "c", "e", "r", "i", "e", "s">>, <<"R", "e", "s", "t", "a", "u", "r", "a", "n", "t", "s">>, <<"L", "a", "u", "n", "d", "r", "y">>, <<"G", "a", "s">>,
      <<"A", "u", "t", "o", "m", "o", "t", "i", "v", "e">>, <<"P", "a", "r", "k", "i", "n", "g">>, <<"P", "e", "r", "s", "o", "n", "a", "l">>, <<"T", "r", "a", "v", "e", "l">>, <<"S", "h", "o", "p", "p", "i", "n", "g">>, <<"E", "n", "t", "e", "r", "t", "a", "i", "n", "m", "e", "n", "t">>,
      <<"V", "i", "d", "e", "o", " ", "G", "a", "m", "e", "s">>, <<"B", "o", "o", "k", "s">>, <<"C", "l", "o", "t", "h", "e", "s">>, <<"F", "u", "r", "n", "i", "t", "u", "r", "e">>, <<"G", "i", "f", "t", "s">>, <<"G", "y", "m">>>>
DEFAULT_INCOME_CATEGORIES == <<<<"S", "a", "l", "a", "r", "y">>, <<"B", "o", "n", "u", "s">>>>
DEFAULT_PAYMENT_CATEGORIES == <<<<"C", "a", "r", "d", " ", "P", "a", "y", "m", "e", "n", "t">>, <<"T", "r", "a", "n", "s", "f", "e", "r">>, <<"R", "e", "t", "u", "r", "n">>>>

\* a normal form that keeps the letter case
normalize_keeping_case(description) == strip(description)

normalize_description(description) == With(lower(description), LAMBDA lowered : strip(lowered))

is_amazon_transaction(description) ==
    With(upper(description), LAMBDA desc_upper :
        contains(desc_upper, <<"A", "M", "A", "Z", "O", "N", ".", "C", "O", "M">>) \/ contains(desc_upper, <<"A", "M", "A", "Z", "O", "N", " ", "M", "K", "T", "P", "L">>))

\* 0.01, in thousandths
Tolerance == 10
MaxDateDiff == 7

\* the test without its look at the consumed set
order_matches_consumed_too(order, matched, date, amount) ==
    LET amount_abs == abs(amount)
        date_diff == toordinal(date) - toordinal(order.date)
    IN  /\ 0 <= date_diff /\ date_diff <= MaxDateDiff
        /\ abs(order.total - amount_abs) < Tolerance

\* the test of the loop of _find_amazon_order
order_matches(order, matched, date, amount) ==
    LET amount_abs == abs(amount)
        date_diff == toordinal(date) - toordinal(order.date)
    IN  /\ order.id \notin matched
        /\ 0 <= date_diff /\ date_diff <= MaxDateDiff
        /\ abs(order.total - amount_abs) < Tolerance

\* best-fit instead of first-fit: the match loaded last
pick_last_match(matches) == matches[Len(matches)]

\* which of the matches is bound
pick_match(matches) == matches[1]

\* returns (items, id) and the consumed set it leaves
find_amazon_order(orders, matched, date, amount) ==
    IF orders = <<>> THEN [items |-> None, id |-> NotFound, matched |-> matched]
    ELSE With(SelectSeq(orders, LAMBDA o : order_matches(o, matched, date, amount)),
              LAMBDA matches :
                  IF matches = <<>> THEN [items |-> None, id |-> NotFound, matched |-> matched]
                  ELSE LET order == pick_match(matches)
                       IN  [items |-> order.items, id |-> Some(order.id),
                            matched |-> matched \cup {order.id}])

\* the dict both _process_row_* return, after the Amazon lookup
reconciled_row(date, description, amount, source, orders, matched) ==
    IF is_amazon_transaction(description)
    THEN With(find_amazon_order(orders, matched, date, amount), LAMBDA found :
             [ok |-> TRUE, matched |-> found.matched,
              txn |-> Some([date |-> date,
                            description |-> IF Truthy(found.items) THEN found.items
                                            ELSE description,
                            amount |-> amount, category |-> None, source |-> source,
                            amazon_order_id |-> found.id])])
    ELSE [ok |-> TRUE, matched |-> matched,
          txn |-> Some([date |-> date, description |-> description, amount |-> amount,
                        category |-> None, source |-> source,
                        amazon_order_id |-> NotFound])]

\* a row of csv.DictReader: the cell under a column name.  A row shorter than
\* the header holds None for the missing cells; the cells of a longer row are
\* a list under the key None.
RestList == <<"list">>
IsStr(v) == v # None /\ v # RestList

dict_row_has(header, fields, col) ==
    IF col = None THEN Len(fields) > Len(header)
    ELSE \E i \in 1..Len(header) : header[i] = col

dict_row_value(header, fields, col) ==
    IF col = None THEN RestList
    ELSE LET i == CHOOSE i \in 1..Len(header) :
                      header[i] = col /\ \A j \in 1..Len(header) : header[j] = col => j <= i
         IN  IF i <= Len(fields) THEN fields[i] ELSE None

\* row[col]
dict_row_getitem(header, fields, col) ==
    IF dict_row_has(header, fields, col) THEN Ok(dict_row_value(header, fields, col))
    ELSE Raise("KeyError")

\* row.get(col, '')
dict_row_get(header, fields, col) ==
    IF dict_row_has(header, fields, col) THEN Ok(dict_row_value(header, fields, col))
    ELSE Ok(<<>>)

\* r.strip() of a looked-up cell
cell_strip(looked_up) ==
    With(looked_up, LAMBDA r :
        IF ~r.ok THEN r
        ELSE IF IsStr(r.val) THEN Ok(strip(r.val)) ELSE Raise("AttributeError"))

\* the parentheses dropped without the sign
clean_amount_unsigned(amount_str) ==
    With(remove_char(remove_char(remove_char(amount_str, "$"), ","), "\""), LAMBDA s :
        IF startswith(s, <<"(">>) /\ endswith(s, <<")">>)
        THEN SubSeq(s, 2, Len(s) - 1)
        ELSE s)

\* the text of a single amount column, cleaned
clean_amount(amount_str) ==
    With(remove_char(remove_char(remove_char(amount_str, "$"), ","), "\""), LAMBDA s :
        IF startswith(s, <<"(">>) /\ endswith(s, <<")">>)
        THEN <<"-">> \o SubSeq(s, 2, Len(s) - 1)
        ELSE s)

\* float(amount_str), negated under invert_amounts
single_amount(amount_str, invert_amounts) ==
    With(float(clean_amount(amount_str)), LAMBDA a :
        IF ~a.ok THEN a
        ELSE IF invert_amounts THEN Ok(-a.val) ELSE a)

\* the amount of a row with Debit and Credit columns: Ok(Some(amount)),
\* Ok(NotFound) for a row with no amount, or the exception
debit_credit_amount(header, fields, debit_col, credit_col) ==
    With(cell_strip(dict_row_get(header, fields, debit_col)), LAMBDA d :
    IF ~d.ok THEN d
    ELSE With(cell_strip(dict_row_get(header, fields, credit_col)), LAMBDA c :
    IF ~c.ok THEN c
    ELSE With(remove_char(remove_char(d.val, "$"), ","), LAMBDA debit_str :
         With(remove_char(remove_char(c.val, "$"), ","), LAMBDA credit_str :
             IF debit_str # <<>>
             THEN With(float(debit_str), LAMBDA f :
                      IF f.ok THEN Ok(Some(-abs(f.val))) ELSE f)
             ELSE IF credit_str # <<>>
             THEN With(float(credit_str), LAMBDA f :
                      IF f.ok THEN Ok(Some(abs(f.val))) ELSE f)
             ELSE Ok(NotFound)))))

process_row_dict(header, fields, date_str, description, amount_col, debit_col, credit_col, date_format, invert_amounts, source, orders, matched) ==
    With(IF Truthy(debit_col) /\ Truthy(credit_col)
         THEN debit_credit_amount(header, fields, debit_col, credit_col)
         ELSE With(cell_strip(dict_row_getitem(header, fields, amount_col)), LAMBDA cell :
                  IF ~cell.ok THEN cell
                  ELSE With(single_amount(cell.val, invert_amounts), LAMBDA a :
                           IF a.ok THEN Ok(Some(a.val)) ELSE a)),
         LAMBDA amount :
        IF ~amount.ok THEN amount
        ELSE IF ~amount.val.found THEN [ok |-> TRUE, matched |-> matched, txn |-> NotFound]
        ELSE With(strptime(date_str, date_format), LAMBDA date :
                 IF ~date.ok THEN date
                 ELSE reconciled_row(date.val, description, amount.val.val, source,
                                     orders, matched)))

\* int(text) of a column selector
int(text) ==
    With(strip(text), LAMBDA t :
        LET digits == IF t # <<>> /\ t[1] \in {"-", "+"} THEN Tail(t) ELSE t
        IN  IF digits = <<>> \/ ~AllDigits(digits) THEN Raise("ValueError")
            ELSE IF t[1] = "-" THEN Ok(-IntOf(digits)) ELSE Ok(IntOf(digits)))

\* row[idx] of a list, idx counted from 0 (from the end when negative)
list_getitem(fields, idx) ==
    IF 0 <= idx /\ idx < Len(fields) THEN Ok(fields[idx + 1])
    ELSE IF idx < 0 /\ -idx <= Len(fields) THEN Ok(fields[Len(fields) + idx + 1])
    ELSE Raise("IndexError")

process_row_list(fields, date_str, description, amount_idx, date_format, invert_amounts, source, orders, matched) ==
    IF ~amount_idx.found THEN Raise("TypeError")
    ELSE With(list_getitem(fields, amount_idx.val), LAMBDA cell :
         IF ~cell.ok THEN cell
         ELSE With(single_amount(strip(cell.val), invert_amounts), LAMBDA amount :
              IF ~amount.ok THEN amount
              ELSE With(strptime(remove_char(date_str, "\""), date_format), LAMBDA date :
                   IF ~date.ok THEN date
                   ELSE With(remove_char(description, "\""), LAMBDA desc :
                            reconciled_row(date.val, desc, amount.val, source, orders,
                                           matched)))))

\* one pass of the loop over a header-based file
dict_row_step(header, fields, cfg, orders, matched) ==
    With(cell_strip(dict_row_getitem(header, fields, cfg.date_col)), LAMBDA date_str :
    IF ~date_str.ok THEN date_str
    ELSE With(cell_strip(dict_row_getitem(header, fields, cfg.desc_col)), LAMBDA description :
    IF ~description.ok THEN description
    ELSE process_row_dict(header, fields, date_str.val, description.val, cfg.amount_col,
                          cfg.debit_col, cfg.credit_col, cfg.date_format,
                          cfg.invert_amounts, cfg.source, orders, matched)))

\* one pass of the loop over a headerless file
list_row_step(fields, cfg, orders, matched) ==
    With(int(cfg.date_col), LAMBDA date_idx :
    IF ~date_idx.ok THEN date_idx
    ELSE With(int(cfg.desc_col), LAMBDA desc_idx :
    IF ~desc_idx.ok THEN desc_idx
    ELSE With(IF Truthy(cfg.amount_col)
              THEN With(int(cfg.amount_col), LAMBDA n : IF n.ok THEN Ok(Some(n.val)) ELSE n)
              ELSE Ok(NotFound), LAMBDA amount_idx :
    IF ~amount_idx.ok THEN amount_idx
    ELSE With(list_getitem(fields, date_idx.val), LAMBDA date_cell :
    IF ~date_cell.ok THEN date_cell
    ELSE With(list_getitem(fields, desc_idx.val), LAMBDA desc_cell :
    IF ~desc_cell.ok THEN desc_cell
    ELSE With(strip(date_cell.val), LAMBDA date_str :
         With(strip(desc_cell.val), LAMBDA description :
             process_row_list(fields, date_str, description, amount_idx.val,
                              cfg.date_format, cfg.invert_amounts, cfg.source, orders,
                              matched))))))))

\* the exceptions each loop catches
CaughtDict == {"KeyError", "ValueError"}
CaughtList == {"IndexError", "ValueError"}

\* the loop over the rows: the transactions so far, the consumed set so far,
\* and the exception that ended it, if one did
RECURSIVE parse_rows(_, _, _, _, _, _)
parse_rows(header, rows, cfg, orders, matched, transactions) ==
    IF rows = <<>> THEN [ok |-> TRUE, transactions |-> transactions, matched |-> matched]
    ELSE IF cfg.has_header /\ rows[1] = <<>>
    THEN parse_rows(header, Tail(rows), cfg, orders, matched, transactions)
    ELSE With(IF cfg.has_header
              THEN dict_row_step(header, rows[1], cfg, orders, matched)
              ELSE list_row_step(rows[1], cfg, orders, matched), LAMBDA r :
             IF r.ok
             THEN parse_rows(header, Tail(rows), cfg, orders, r.matched,
                             IF r.txn.found THEN Append(transactions, r.txn.val)
                             ELSE transactions)
             ELSE IF r.exc \in (IF cfg.has_header THEN CaughtDict ELSE CaughtList)
             THEN parse_rows(header, Tail(rows), cfg, orders, matched, transactions)
             ELSE [ok |-> FALSE, exc |-> r.exc, matched |-> matched])

\* the categorisation pass at the end of parse_csv_with_callback
\* the lookup under the description as it stands
categorize_verbatim(txn, mapping) ==
    IF txn.category = None
    THEN [txn EXCEPT !.category = IF txn.description \in DOMAIN mapping
                                  THEN mapping[txn.description]
                                  ELSE Uncategorized]
    ELSE txn

categorize(txn, mapping) ==
    IF txn.category = None
    THEN With(normalize_description(txn.description), LAMBDA normalized :
             [txn EXCEPT !.category = IF normalized \in DOMAIN mapping THEN mapping[normalized]
                                      ELSE Uncategorized])
    ELSE txn

\* parse_csv_with_callback(file, ...): Ok(transactions) or the exception, and
\* the consumed set it leaves.  cfg holds the other arguments.
parse_csv_with_callback(file, cfg, orders, matched, mapping) ==
    LET header == IF cfg.has_header /\ file # <<>> THEN file[1] ELSE <<>>
        rows == IF cfg.has_header /\ file # <<>> THEN Tail(file) ELSE file
    IN  With(parse_rows(header, rows, cfg, orders, matched, <<>>), LAMBDA parsed :
            IF parsed.ok
            THEN [ok |-> TRUE, matched |-> parsed.matched,
                  val |-> [i \in 1..Len(parsed.transactions) |->
                              categorize(parsed.transactions[i], mapping)]]
            ELSE parsed)

----------------------------------------------------------------------------
(* generate_summary *)

Digit2(n) == <<DigitChars[((n \div 10) % 10) + 1], DigitChars[(n % 10) + 1]>>
Digit4(n) == Digit2(n \div 100) \o Digit2(n % 100)

\* date.strftime('%Y-%m')
month_key_of(date) == Digit4(date.y) \o <<"-">> \o Digit2(date.m)

\* date.strftime('%Y-%m-%d')
iso_date(date) == month_key_of(date) \o <<"-">> \o Digit2(date.d)

InList(x, list) == \E i \in 1..Len(list) : list[i] = x

\* defaultdict: d[k], made from `fresh` when k is not yet a key
DefaultGet(d, k, fresh) == IF k \in DOMAIN d THEN d[k] ELSE fresh
FcnSet(d, k, v) == [x \in DOMAIN d \cup {k} |-> IF x = k THEN v ELSE d[x]]

EmptySummary ==
    [expenses |-> <<>>, income |-> <<>>, payments |-> <<>>,
     monthly_data |-> <<>>, monthly_expense_breakdown |-> <<>>]

\* the loop body adding the signed amount to the expense total
summary_step_signed(acc, txn, expense_categories, payment_categories) ==
    IF txn.category = IGNORE_CATEGORY THEN acc
    ELSE LET month_key == month_key_of(txn.date)
             month == DefaultGet(acc.monthly_data, month_key, [expenses |-> 0, income |-> 0])
             cells == DefaultGet(acc.monthly_expense_breakdown, month_key,
                                 [c \in {expense_categories[i] : i \in 1..Len(expense_categories)}
                                     |-> 0])
         IN  IF InList(txn.category, payment_categories)
             THEN [acc EXCEPT !.payments = Append(@, txn)]
             ELSE IF txn.amount < 0
             THEN [acc EXCEPT
                     !.expenses = Append(@, txn),
                     !.monthly_data =
                         FcnSet(@, month_key,
                                [month EXCEPT !.expenses = @ + txn.amount]),
                     !.monthly_expense_breakdown =
                         IF InList(txn.category, expense_categories)
                         THEN FcnSet(@, month_key,
                                     [cells EXCEPT ![txn.category] = @ + abs(txn.amount)])
                         ELSE @]
             ELSE [acc EXCEPT
                     !.income = Append(@, txn),
                     !.monthly_data =
                         FcnSet(@, month_key, [month EXCEPT !.income = @ + txn.amount])]

\* the loop body testing the sign of the amount before the payment categories
summary_step_sign_first(acc, txn, expense_categories, payment_categories) ==
    IF txn.category = IGNORE_CATEGORY THEN acc
    ELSE LET month_key == month_key_of(txn.date)
             month == DefaultGet(acc.monthly_data, month_key, [expenses |-> 0, income |-> 0])
             cells == DefaultGet(acc.monthly_expense_breakdown, month_key,
                                 [c \in {expense_categories[i] : i \in 1..Len(expense_categories)}
                                     |-> 0])
         IN  IF txn.amount >= 0 /\ InList(txn.category, payment_categories)
             THEN [acc EXCEPT !.payments = Append(@, txn)]
             ELSE IF txn.amount < 0
             THEN [acc EXCEPT
                     !.expenses = Append(@, txn),
                     !.monthly_data =
                         FcnSet(@, month_key,
                                [month EXCEPT !.expenses = @ + abs(txn.amount)]),
                     !.monthly_expense_breakdown =
                         IF InList(txn.category, expense_categories)
                         THEN FcnSet(@, month_key,
                                     [cells EXCEPT ![txn.category] = @ + abs(txn.amount)])
                         ELSE @]
             ELSE [acc EXCEPT
                     !.income = Append(@, txn),
                     !.monthly_data =
                         FcnSet(@, month_key, [month EXCEPT !.income = @ + txn.amount])]

\* the loop body adding to a cell whatever the category
summary_step_any_category(acc, txn, expense_categories, payment_categories) ==
    IF txn.category = IGNORE_CATEGORY THEN acc
    ELSE LET month_key == month_key_of(txn.date)
             month == DefaultGet(acc.monthly_data, month_key, [expenses |-> 0, income |-> 0])
             cells == DefaultGet(acc.monthly_expense_breakdown, month_key,
                                 [c \in {expense_categories[i] : i \in 1..Len(expense_categories)}
                                     |-> 0])
         IN  IF InList(txn.category, payment_categories)
             THEN [acc EXCEPT !.payments = Append(@, txn)]
             ELSE IF txn.amount < 0
             THEN [acc EXCEPT
                     !.expenses = Append(@, txn),
                     !.monthly_data =
                         FcnSet(@, month_key,
                                [month EXCEPT !.expenses = @ + abs(txn.amount)]),
                     !.monthly_expense_breakdown =
                         FcnSet(@, month_key,
                                FcnSet(cells, txn.category,
                                       DefaultGet(cells, txn.category, 0) + abs(txn.amount)))]
             ELSE [acc EXCEPT
                     !.income = Append(@, txn),
                     !.monthly_data =
                         FcnSet(@, month_key, [month EXCEPT !.income = @ + txn.amount])]

\* the body of the loop of generate_summary, for one transaction
summary_step(acc, txn, expense_categories, payment_categories) ==
    IF txn.category = IGNORE_CATEGORY THEN acc
    ELSE LET month_key == month_key_of(txn.date)
             month == DefaultGet(acc.monthly_data, month_key, [expenses |-> 0, income |-> 0])
             cells == DefaultGet(acc.monthly_expense_breakdown, month_key,
                                 [c \in {expense_categories[i] : i \in 1..Len(expense_categories)}
                                     |-> 0])
         IN  IF InList(txn.category, payment_categories)
             THEN [acc EXCEPT !.payments = Append(@, txn)]
             ELSE IF txn.amount < 0
             THEN [acc EXCEPT
                     !.expenses = Append(@, txn),
                     !.monthly_data =
                         FcnSet(@, month_key,
                                [month EXCEPT !.expenses = @ + abs(txn.amount)]),
                     !.monthly_expense_breakdown =
                         IF InList(txn.category, expense_categories)
                         THEN FcnSet(@, month_key,
                                     [cells EXCEPT ![txn.category] = @ + abs(txn.amount)])
                         ELSE @]
             ELSE [acc EXCEPT
                     !.income = Append(@, txn),
                     !.monthly_data =
                         FcnSet(@, month_key, [month EXCEPT !.income = @ + txn.amount])]

RECURSIVE summary_loop(_, _, _, _)
summary_loop(acc, transactions, expense_categories, payment_categories) ==
    IF transactions = <<>> THEN acc
    ELSE With(summary_step(acc, transactions[1], expense_categories, payment_categories),
              LAMBDA next :
                  summary_loop(next, Tail(transactions), expense_categories,
                               payment_categories))

\* list.sort(key=lambda x: x['date']): stable
RECURSIVE insert_by_date(_, _)
insert_by_date(sorted, txn) ==
    IF sorted = <<>> THEN <<txn>>
    ELSE IF toordinal(sorted[Len(sorted)].date) <= toordinal(txn.date)
    THEN Append(sorted, txn)
    ELSE Append(insert_by_date(SubSeq(sorted, 1, Len(sorted) - 1), txn), sorted[Len(sorted)])

RECURSIVE sort_by_date(_)
sort_by_date(list) ==
    IF list = <<>> THEN <<>>
    ELSE With(sort_by_date(SubSeq(list, 1, Len(list) - 1)), LAMBDA sorted :
             insert_by_date(sorted, list[Len(list)]))

generate_summary(transactions, expense_categories, payment_categories) ==
    With(summary_loop(EmptySummary, transactions, expense_categories, payment_categories),
         LAMBDA acc :
             [acc EXCEPT !.expenses = sort_by_date(@),
                         !.income = sort_by_date(@),
                         !.payments = sort_by_date(@)])

----------------------------------------------------------------------------
NoFile == [exists |-> FALSE]

\* the class body: the three default lists, shared with no parser
DefaultLists ==
    [expense |-> DEFAULT_EXPENSE_CATEGORIES, income |-> DEFAULT_INCOME_CATEGORIES,
     payment |-> DEFAULT_PAYMENT_CATEGORIES]

PristineClass ==
    /\ class_defaults = DefaultLists
    /\ shared = {}

\* the state the registry leaves alone
IdleParser ==
    /\ PristineClass
    /\ amazon_orders = <<>>
    /\ matched_amazon_orders = {}
    /\ mappings = <<>>
    /\ EXPENSE_CATEGORIES = DEFAULT_EXPENSE_CATEGORIES
    /\ INCOME_CATEGORIES = DEFAULT_INCOME_CATEGORIES
    /\ PAYMENT_CATEGORIES = DEFAULT_PAYMENT_CATEGORIES
    /\ store = NoFile

IdleGui ==
    /\ heap = <<>>
    /\ all_transactions = <<>>
    /\ pending_categorizations = <<>>
    /\ current_categorization_index = 0
    /\ pool_loaded_at = 0

Started == [op |-> "start"]

----------------------------------------------------------------------------
InitRegistry ==
    /\ BANK_FORMATS = PredefinedFormats
    /\ IdleParser
    /\ IdleGui
    /\ call = Started
    /\ ret = Ok(None)

NextRegistry ==
    \/ AddCustomFormat
    \/ GetBankFormat
    \/ GetBankFormatByName
    \/ DetectBankFormatFromHeaders

SpecRegistry == InitRegistry /\ [][NextRegistry]_vars

----------------------------------------------------------------------------
(* The parser called on its own: files of raw rows are imported under a    *)
(* column configuration, against a pool of Amazon orders.                  *)

MaxRows == 2

Date(y, m, d) == [y |-> y, m |-> m, d |-> d]

\* an order of the pool, as load_amazon_history builds it
Order(id, date, total, items) == [id |-> id, date |-> date, total |-> total, items |-> items]

\* the arguments of parse_csv_with_callback other than the file
ParseConfig(date_col, desc_col, amount_col, source, date_format, invert_amounts, debit_col, credit_col, has_header) ==
    [date_col |-> date_col, desc_col |-> desc_col, amount_col |-> amount_col,
     source |-> source, date_format |-> date_format, invert_amounts |-> invert_amounts,
     debit_col |-> debit_col, credit_col |-> credit_col, has_header |-> has_header]

\* the arguments a registered format stands for
ConfigOf(fmt, source) ==
    ParseConfig(fmt.date_col, fmt.desc_col, fmt.amount_col, source, fmt.date_format,
                fmt.invert_amounts, fmt.debit_col, fmt.credit_col, fmt.has_header)

FileHeader == <<<<"T", "r", "a", "n", "s", "a", "c", "t", "i", "o", "n", " ", "D", "a", "t", "e">>, <<"D", "e", "s", "c", "r", "i", "p", "t", "i", "o", "n">>, <<"A", "m", "o", "u", "n", "t">>, <<"D", "e", "b", "i", "t">>, <<"C", "r", "e", "d", "i", "t">>>>

RowCells ==
    { <<<<"0", "1", "/", "1", "5", "/", "2", "0", "2", "4">>, <<"W", "H", "O", "L", "E", " ", "F", "O", "O", "D", "S">>, <<"-", "5", "4", ".", "3", "2">>, <<"5", "4", ".", "3", "2">>, <<>>>>,
      <<<<"0", "3", "/", "0", "1", "/", "2", "0", "2", "4">>, <<"A", "M", "A", "Z", "O", "N", ".", "C", "O", "M", "*", "A", "B", "1">>, <<"-", "1", "0", "0", ".", "0", "0">>, <<"$", "1", "0", "0", ".", "0", "0">>, <<>>>>,
      <<<<"0", "3", "/", "0", "2", "/", "2", "0", "2", "4">>, <<" ", "A", "m", "a", "z", "o", "n", " ", "M", "k", "t", "p", "l", " ", "U", "S", " ">>, <<"(", "1", "0", "0", ".", "0", "0", "5", ")">>, <<"1", "0", "0", ".", "0", "0", "5">>, <<"7">>>>,
      <<<<"0", "1", "/", "1", "6", "/", "2", "0", "2", "4">>, <<"P", "a", "y", "r", "o", "l", "l">>, <<"$", "1", ",", "2", "3", "4", ".", "0", "0">>, <<>>, <<" ", "1", ",", "2", "3", "4", ".", "0", "0">>>>,
      <<<<"2", "0", "2", "4", "-", "0", "1", "-", "1", "7">>, <<"W", "H", "O", "L", "E", " ", "F", "O", "O", "D", "S">>, <<"-", "1", ".", "0", "0">>, <<"1", ".", "0", "0">>, <<>>>>,
      <<<<"0", "1", "/", "1", "8", "/", "2", "0", "2", "4">>, <<"W", "H", "O", "L", "E", " ", "F", "O", "O", "D", "S">>, <<"n", "/", "a">>, <<"n", "/", "a">>, <<>>>>,
      <<<<"0", "1", "/", "1", "9", "/", "2", "0", "2", "4">>, <<"P", "E", "N", "D", "I", "N", "G">>, <<>>, <<"$">>, <<" ">>>>,
      <<<<"0", "1", "/", "2", "0", "/", "2", "0", "2", "4">>, <<"W", "H", "O", "L", "E", " ", "F", "O", "O", "D", "S">>>>,
      <<<<"0", "1", "/", "2", "1", "/", "2", "0", "2", "4">>, <<"W", "H", "O", "L", "E", " ", "F", "O", "O", "D", "S">>, <<"-", "2", ".", "0", "0">>, <<"2", ".", "0", "0">>, <<>>, <<"m", "e", "m", "o">>>>,
      <<>> }

RECURSIVE SeqsUpTo(_, _)
SeqsUpTo(S, n) ==
    IF n = 0 THEN {<<>>}
    ELSE LET shorter == SeqsUpTo(S, n - 1)
         IN  shorter \cup {Append(s, x) : s \in shorter, x \in S}

\* header-based files carry the header row; headerless files are rows only
HeaderFiles == {<<FileHeader>> \o rows : rows \in SeqsUpTo(RowCells, MaxRows)}
HeaderlessFiles == SeqsUpTo(RowCells, MaxRows)

Card == <<"c", "a", "r", "d">>

HeaderConfigs ==
    { ConfigOf(Chase, Card),
      ConfigOf(CapitalOne, Card),
      ConfigOf(AppleCard, Card),
      \* Debit and Credit columns together with the inversion flag
      ParseConfig(<<"T", "r", "a", "n", "s", "a", "c", "t", "i", "o", "n", " ", "D", "a", "t", "e">>, <<"D", "e", "s", "c", "r", "i", "p", "t", "i", "o", "n">>, <<"A", "m", "o", "u", "n", "t">>, Card, DefaultDateFormat, TRUE,
                  <<"D", "e", "b", "i", "t">>, <<"C", "r", "e", "d", "i", "t">>, TRUE),
      \* no amount selector at all
      ParseConfig(<<"T", "r", "a", "n", "s", "a", "c", "t", "i", "o", "n", " ", "D", "a", "t", "e">>, <<"D", "e", "s", "c", "r", "i", "p", "t", "i", "o", "n">>, None, Card, DefaultDateFormat, FALSE,
                  None, None, TRUE),
      \* one Amount column, inverted
      ParseConfig(<<"T", "r", "a", "n", "s", "a", "c", "t", "i", "o", "n", " ", "D", "a", "t", "e">>, <<"D", "e", "s", "c", "r", "i", "p", "t", "i", "o", "n">>, <<"A", "m", "o", "u", "n", "t">>, Card, DefaultDateFormat, TRUE,
                  None, None, TRUE) }

HeaderlessConfigs ==
    { ParseConfig(<<"0">>, <<"1">>, <<"2">>, Card, DefaultDateFormat, FALSE, None, None, FALSE),
      ConfigOf(WellsFargoBank, Card),
      \* Debit and Credit columns by position
      ParseConfig(<<"0">>, <<"1">>, None, Card, DefaultDateFormat, FALSE, <<"3">>, <<"4">>, FALSE),
      ParseConfig(<<"0">>, <<"1">>, <<"2">>, Card, DefaultDateFormat, TRUE, None, None, FALSE),
      ParseConfig(<<"0">>, <<"1">>, <<"2">>, Card, DefaultDateFormat, TRUE, <<"3">>, <<"4">>, FALSE) }

Feb26 == Date(2024, 2, 26)

OrderPools ==
    { <<>>,
      << Order(0, Feb26, 100000, <<"U", "S", "B", " ", "c", "a", "b", "l", "e">>) >>,
      << Order(0, Date(2024, 2, 22), 100000, <<"K", "e", "t", "t", "l", "e">>),
         Order(1, Date(2024, 3, 1), 100000, <<>>),
         Order(2, Feb26, 100009, <<"D", "e", "s", "k", " ", "l", "a", "m", "p">>),
         Order(3, Feb26, 100010, <<"N", "o", "v", "e", "l">>) >> }

KnownMappings ==
    { <<>>,
      [k \in {<<"w", "h", "o", "l", "e", " ", "f", "o", "o", "d", "s">>} |-> <<"G", "r", "o", "c", "e", "r", "i", "e", "s">>],
      [k \in {<<"w", "h", "o", "l", "e", " ", "f", "o", "o", "d", "s">>, <<"u", "s", "b", " ", "c", "a", "b", "l", "e">>, <<"a", "m", "a", "z", "o", "n", " ", "m", "k", "t", "p", "l", " ", "u", "s">>} |->
          IF k = <<"w", "h", "o", "l", "e", " ", "f", "o", "o", "d", "s">> THEN <<"R", "e", "s", "t", "a", "u", "r", "a", "n", "t", "s">> ELSE <<"S", "h", "o", "p", "p", "i", "n", "g">>] }

ChargeDates == {Feb26, Date(2024, 2, 25), Date(2024, 3, 1), Date(2024, 3, 4), Date(2024, 3, 5)}
ChargeAmounts == {-100000, 100000, -100009, -100010, -99991, -99990, 0}
ChargeDescriptions == {<<"A", "M", "A", "Z", "O", "N", ".", "C", "O", "M", "*", "A", "B", "1">>, <<"A", "m", "a", "z", "o", "n", " ", "M", "k", "t", "p", "l", " ", "U", "S">>, <<"W", "H", "O", "L", "E", " ", "F", "O", "O", "D", "S">>}

Pending == [pending |-> TRUE]

\* an import: the file and the configuration are drawn, then read
InitParse ==
    /\ BANK_FORMATS = PredefinedFormats
    /\ amazon_orders \in OrderPools
    /\ matched_amazon_orders = {}
    /\ mappings \in KnownMappings
    /\ EXPENSE_CATEGORIES = DEFAULT_EXPENSE_CATEGORIES
    /\ INCOME_CATEGORIES = DEFAULT_INCOME_CATEGORIES
    /\ PAYMENT_CATEGORIES = DEFAULT_PAYMENT_CATEGORIES
    /\ PristineClass
    /\ store = NoFile
    /\ IdleGui
    /\ \E cfg \in HeaderConfigs \cup HeaderlessConfigs :
          \E file \in IF cfg.has_header THEN HeaderFiles ELSE HeaderlessFiles :
              call = [op |-> "parse_csv_with_callback", file |-> file, cfg |-> cfg]
    /\ ret = Pending

ParseCall ==
    \E r \in {parse_csv_with_callback(call.file, call.cfg, amazon_orders,
                                      matched_amazon_orders, mappings)} :
        /\ ret = Pending
        /\ matched_amazon_orders' = r.matched
        /\ ret' = IF r.ok THEN Ok(r.val) ELSE Raise(r.exc)
        /\ UNCHANGED <<registryVars, amazon_orders, mappings, EXPENSE_CATEGORIES,
                       INCOME_CATEGORIES, PAYMENT_CATEGORIES, classVars, store, guiVars, call>>

ParseHeaderFile == call.cfg.has_header /\ ParseCall

ParseHeaderlessFile == ~call.cfg.has_header /\ ParseCall

NextParse ==
    \/ ParseHeaderFile
    \/ ParseHeaderlessFile

SpecParse == InitParse /\ [][NextParse]_vars

----------------------------------------------------------------------------
(* The reconciler on its own: charges are looked up in the pool one after  *)
(* the other.                                                              *)

InitReconcile ==
    /\ BANK_FORMATS = PredefinedFormats
    /\ amazon_orders \in OrderPools
    /\ matched_amazon_orders = {}
    /\ mappings = <<>>
    /\ EXPENSE_CATEGORIES = DEFAULT_EXPENSE_CATEGORIES
    /\ INCOME_CATEGORIES = DEFAULT_INCOME_CATEGORIES
    /\ PAYMENT_CATEGORIES = DEFAULT_PAYMENT_CATEGORIES
    /\ PristineClass
    /\ store = NoFile
    /\ IdleGui
    /\ call = Started
    /\ ret = Ok(None)

\* the tail of _process_row_dict and _process_row_list: a row whose date and
\* amount were read is looked up in the pool when it looks like an Amazon charge
ReconcileRow ==
    \E date \in ChargeDates, amount \in ChargeAmounts, description \in ChargeDescriptions :
        \E r \in {reconciled_row(date, description, amount, Card, amazon_orders,
                                 matched_amazon_orders)} :
            /\ matched_amazon_orders' = r.matched
            /\ call' = [op |-> "_process_row", date |-> date, amount |-> amount,
                        description |-> description, matched |-> matched_amazon_orders]
            /\ ret' = Ok(r.txn.val)
            /\ UNCHANGED <<registryVars, amazon_orders, mappings, EXPENSE_CATEGORIES,
                           INCOME_CATEGORIES, PAYMENT_CATEGORIES, classVars, store, guiVars>>

NextReconcile == ReconcileRow

SpecReconcile == InitReconcile /\ [][NextReconcile]_vars

----------------------------------------------------------------------------
(* The aggregator on its own: a transaction list is drawn and summarised.  *)

MaxSummaryTxns == 2

Txn(date, description, amount, category, source, amazon_order_id) ==
    [date |-> date, description |-> description, amount |-> amount,
     category |-> category, source |-> source, amazon_order_id |-> amazon_order_id]

SummaryDates == {Date(2024, 1, 15), Date(2024, 1, 3), Date(2023, 12, 31)}
SummaryAmounts == {-5000, 0, 2500}
SummaryCategories == {<<"G", "r", "o", "c", "e", "r", "i", "e", "s">>, <<"H", "o", "b", "b", "y">>, <<"C", "a", "r", "d", " ", "P", "a", "y", "m", "e", "n", "t">>, IGNORE_CATEGORY, Uncategorized}

SummaryTxns ==
    { Txn(date, <<"s", "h", "o", "p">>, amount, category, Card, NotFound) :
        date \in SummaryDates, amount \in SummaryAmounts, category \in SummaryCategories }

\* the payment categories: the defaults, or the defaults after add_category has
\* added the name "Ignore" to them
PaymentTaxonomies ==
    {DEFAULT_PAYMENT_CATEGORIES, DEFAULT_PAYMENT_CATEGORIES \o <<IGNORE_CATEGORY>>}

InitSummary ==
    /\ BANK_FORMATS = PredefinedFormats
    /\ amazon_orders = <<>>
    /\ matched_amazon_orders = {}
    /\ mappings = <<>>
    /\ EXPENSE_CATEGORIES = DEFAULT_EXPENSE_CATEGORIES
    /\ INCOME_CATEGORIES = DEFAULT_INCOME_CATEGORIES
    /\ PAYMENT_CATEGORIES \in PaymentTaxonomies
    /\ PristineClass
    /\ store = NoFile
    /\ IdleGui
    /\ \E transactions \in SeqsUpTo(SummaryTxns, MaxSummaryTxns) :
          call = [op |-> "generate_summary", transactions |-> transactions]
    /\ ret = Pending

GenerateSummary ==
    /\ ret = Pending
    /\ ret' = Ok(generate_summary(call.transactions, EXPENSE_CATEGORIES, PAYMENT_CATEGORIES))
    /\ UNCHANGED <<registryVars, parserVars, guiVars, call>>

NextSummary == GenerateSummary

SpecSummary == InitSummary /\ [][NextSummary]_vars

----------------------------------------------------------------------------
(* The store: the file at parser.mapping_file and the JSON text in it.     *)
(* json.dump writes a Python value as a JSON value, json.load reads a JSON *)
(* value back as a Python value.                                           *)

JsonNull == [json |-> "null"]
JsonString(s) == [json |-> "string", v |-> s]
JsonArray(items) == [json |-> "array", v |-> items]
JsonObject(members) == [json |-> "object", v |-> members]
\* text that is no JSON value: json.load raises on it
NotJson == [json |-> "invalid"]

\* json.dump of a list of str and of a dict from str to str
json_dump_list(list) == JsonArray([i \in 1..Len(list) |-> JsonString(list[i])])
json_dump_dict(d) == JsonObject([k \in DOMAIN d |-> JsonString(d[k])])

\* json.load: null is None, a string a str, an array a list, an object a dict
RECURSIVE json_load(_)
json_load(value) ==
    CASE value.json = "null" -> None
      [] value.json = "string" -> value.v
      [] value.json = "array" -> [i \in DOMAIN value.v |-> json_load(value.v[i])]
      [] value.json = "object" -> [k \in DOMAIN value.v |-> json_load(value.v[k])]

\* the document save_config writes
config_document(expense_categories, income_categories, payment_categories, mapping) ==
    JsonObject(
        [k \in {<<"e", "x", "p", "e", "n", "s", "e", "_", "c", "a", "t", "e", "g", "o", "r", "i", "e", "s">>, <<"i", "n", "c", "o", "m", "e", "_", "c", "a", "t", "e", "g", "o", "r", "i", "e", "s">>, <<"p", "a", "y", "m", "e", "n", "t", "_", "c", "a", "t", "e", "g", "o", "r", "i", "e", "s">>, <<"m", "a", "p", "p", "i", "n", "g", "s">>} |->
            IF k = <<"e", "x", "p", "e", "n", "s", "e", "_", "c", "a", "t", "e", "g", "o", "r", "i", "e", "s">> THEN json_dump_list(expense_categories)
            ELSE IF k = <<"i", "n", "c", "o", "m", "e", "_", "c", "a", "t", "e", "g", "o", "r", "i", "e", "s">> THEN json_dump_list(income_categories)
            ELSE IF k = <<"p", "a", "y", "m", "e", "n", "t", "_", "c", "a", "t", "e", "g", "o", "r", "i", "e", "s">> THEN json_dump_list(payment_categories)
            ELSE json_dump_dict(mapping)])

\* save_config writing the taxonomy and no mappings
save_config_without_mappings(expense_categories, income_categories, payment_categories, mapping) ==
    [exists |-> TRUE,
     doc |-> config_document(expense_categories, income_categories, payment_categories,
                             <<>>)]

\* save_config: the file after the call
save_config(expense_categories, income_categories, payment_categories, mapping) ==
    [exists |-> TRUE,
     doc |-> config_document(expense_categories, income_categories, payment_categories,
                             mapping)]

\* _save_mappings: the file after the call
save_mappings(mapping) == [exists |-> TRUE, doc |-> json_dump_dict(mapping)]

\* config.get(key, default) on the dict json.load returned
doc_get(doc, key, default) ==
    IF key \in DOMAIN doc.v THEN json_load(doc.v[key]) ELSE default

\* whether len() of config.get(key, default) returns: None has no len()
has_len(doc, key) == key \in DOMAIN doc.v => doc.v[key].json # "null"

\* _use_defaults: copies of the lists of the class
use_defaults ==
    [EXPENSE_CATEGORIES |-> class_defaults.expense,
     INCOME_CATEGORIES |-> class_defaults.income,
     PAYMENT_CATEGORIES |-> class_defaults.payment,
     mappings |-> <<>>,
     shared |-> {}]

\* _load_config: the taxonomy and the mappings the parser holds after the call.
\* json.load raising, .get on a value that is no dict and len() of None in the
\* log line all end in the except branch, which calls _use_defaults.  For a
\* key the file lacks, config.get returns the list of the class itself.
load_config(file) ==
    IF ~file.exists THEN use_defaults
    ELSE IF file.doc.json # "object" THEN use_defaults
    ELSE IF ~(/\ has_len(file.doc, <<"e", "x", "p", "e", "n", "s", "e", "_", "c", "a", "t", "e", "g", "o", "r", "i", "e", "s">>)
              /\ has_len(file.doc, <<"i", "n", "c", "o", "m", "e", "_", "c", "a", "t", "e", "g", "o", "r", "i", "e", "s">>)
              /\ has_len(file.doc, <<"m", "a", "p", "p", "i", "n", "g", "s">>))
    THEN use_defaults
    ELSE [EXPENSE_CATEGORIES |->
              doc_get(file.doc, <<"e", "x", "p", "e", "n", "s", "e", "_", "c", "a", "t", "e", "g", "o", "r", "i", "e", "s">>, class_defaults.expense),
          INCOME_CATEGORIES |->
              doc_get(file.doc, <<"i", "n", "c", "o", "m", "e", "_", "c", "a", "t", "e", "g", "o", "r", "i", "e", "s">>, class_defaults.income),
          PAYMENT_CATEGORIES |->
              doc_get(file.doc, <<"p", "a", "y", "m", "e", "n", "t", "_", "c", "a", "t", "e", "g", "o", "r", "i", "e", "s">>, class_defaults.payment),
          mappings |-> doc_get(file.doc, <<"m", "a", "p", "p", "i", "n", "g", "s">>, <<>>),
          shared |->
              (IF <<"e", "x", "p", "e", "n", "s", "e", "_", "c", "a", "t", "e", "g", "o", "r", "i", "e", "s">> \in DOMAIN file.doc.v THEN {} ELSE {"expense"})
              \cup (IF <<"i", "n", "c", "o", "m", "e", "_", "c", "a", "t", "e", "g", "o", "r", "i", "e", "s">> \in DOMAIN file.doc.v THEN {} ELSE {"income"})
              \cup (IF <<"p", "a", "y", "m", "e", "n", "t", "_", "c", "a", "t", "e", "g", "o", "r", "i", "e", "s">> \in DOMAIN file.doc.v THEN {} ELSE {"payment"})]

----------------------------------------------------------------------------
(* load_amazon_history: rows of the order-history file, as the cells under *)
(* the three selected columns (None where the row is too short)            *)

AmazonRow(date, total, items) == [date |-> date, total |-> total, items |-> items]

AmazonDateFormat == <<"%", "m", "/", "%", "d", "/", "%", "Y">>

\* the loop over the rows; a cell that is None ends the whole load
RECURSIVE load_orders(_, _)
load_orders(rows, orders) ==
    IF rows = <<>> THEN Ok(orders)
    ELSE LET row == rows[1]
         IN  IF row.date = None \/ row.total = None \/ row.items = None
             THEN Raise("AttributeError")
             ELSE With(strip(row.date), LAMBDA date_str :
                  With(remove_char(remove_char(strip(row.total), "$"), ","),
                       LAMBDA total_str :
                      IF date_str = <<>> \/ total_str = <<>>
                      THEN load_orders(Tail(rows), orders)
                      ELSE With(strptime(date_str, AmazonDateFormat), LAMBDA date :
                           IF ~date.ok THEN load_orders(Tail(rows), orders)
                           ELSE With(float(total_str), LAMBDA total :
                                IF ~total.ok THEN load_orders(Tail(rows), orders)
                                ELSE With(Append(orders,
                                                 Order(Len(orders), date.val,
                                                       abs(total.val), strip(row.items))),
                                          LAMBDA longer :
                                              load_orders(Tail(rows), longer))))))

----------------------------------------------------------------------------
(* The review session: one window, its parser, the files the user picks    *)

MaxTransactions == 2

DisplayWidth == 50

Ellipsis == <<".", ".", ".">>

\* str.replace("...", ""): every non-overlapping occurrence, left to right
RECURSIVE remove_ellipsis(_)
remove_ellipsis(text) ==
    IF text = <<>> THEN <<>>
    ELSE IF startswith(text, Ellipsis)
    THEN remove_ellipsis(SubSeq(text, Len(Ellipsis) + 1, Len(text)))
    ELSE <<text[1]>> \o remove_ellipsis(Tail(text))

\* the description column of the review list (refresh_transaction_list)
displayed_description(description) ==
    IF Len(description) > DisplayWidth
    THEN SubSeq(description, 1, DisplayWidth) \o Ellipsis
    ELSE description

\* the first place of all_transactions that the selected row's date and
\* description fit, or 0
first_fit(transactions, objects, date_str, description) ==
    LET fits == {i \in 1..Len(transactions) :
                    /\ iso_date(objects[transactions[i]].date) = date_str
                    /\ startswith(objects[transactions[i]].description,
                                  remove_ellipsis(description))}
    IN  IF fits = {} THEN 0 ELSE CHOOSE i \in fits : \A j \in fits : i <= j

\* the first transaction of each normalized description that is Uncategorized,
\* in the order of the import (the dict uncategorized_descriptions)
RECURSIVE uncategorized_descriptions(_, _, _)
uncategorized_descriptions(ids, objects, seen) ==
    IF ids = <<>> THEN <<>>
    ELSE LET txn == objects[ids[1]]
             normalized == normalize_description(txn.description)
         IN  IF txn.category = Uncategorized /\ normalized \notin seen
             THEN <<ids[1]>> \o uncategorized_descriptions(Tail(ids), objects,
                                                          seen \cup {normalized})
             ELSE uncategorized_descriptions(Tail(ids), objects, seen)

\* a wizard that keeps its list and index when the index reaches the end
show_current_categorization_keep(pending, index) ==
    [pending |-> pending, index |-> index]

\* show_current_categorization: what it does to the wizard's list and index
show_current_categorization(pending, index) ==
    IF index >= Len(pending) THEN [pending |-> <<>>, index |-> 0]
    ELSE [pending |-> pending, index |-> index]

\* the category buttons show_current_categorization draws for a transaction
category_buttons(txn) ==
    IF txn.amount >= 0
    THEN PAYMENT_CATEGORIES \o INCOME_CATEGORIES \o <<IGNORE_CATEGORY>>
    ELSE EXPENSE_CATEGORIES \o <<IGNORE_CATEGORY>>

\* the values of the category box of the review tab
all_categories ==
    EXPENSE_CATEGORIES \o INCOME_CATEGORIES \o PAYMENT_CATEGORIES \o <<IGNORE_CATEGORY>>

\* the loop of apply_category_direct over all_transactions
apply_to_matching(objects, transactions, description_to_match, category) ==
    [i \in 1..Len(objects) |->
        IF /\ \E k \in 1..Len(transactions) : transactions[k] = i
           /\ objects[i].description = description_to_match
           /\ objects[i].category = Uncategorized
        THEN [objects[i] EXCEPT !.category = category]
        ELSE objects[i]]

\* what the user picks
ShortRow == <<<<"0", "2", "/", "2", "8", "/", "2", "0", "2", "4">>, <<"W", "H", "O", "L", "E", " ", "F", "O", "O", "D", "S">>>>

SessionFiles ==
    { <<FileHeader, <<<<"0", "2", "/", "2", "6", "/", "2", "0", "2", "4">>, <<"A", "m", "a", "z", "o", "n", " ", "M", "k", "t", "p", "l", " ", "U", "S">>, <<"-", "1", "0", "0", ".", "0", "0">>, <<>>, <<>>>>,
                    <<<<"0", "2", "/", "2", "6", "/", "2", "0", "2", "4">>, <<"W", "H", "O", "L", "E", " ", "F", "O", "O", "D", "S">>, <<"-", "5", "4", ".", "3", "2">>, <<>>, <<>>>> >>,
      <<FileHeader, <<<<"0", "2", "/", "2", "7", "/", "2", "0", "2", "4">>, <<"A", "M", "A", "Z", "O", "N", " ", "M", "K", "T", "P", "L", " ", "U", "S">>, <<"-", "1", "0", "0", ".", "0", "0">>, <<>>, <<>>>> >>,
      <<FileHeader, <<<<"0", "2", "/", "2", "7", "/", "2", "0", "2", "4">>, <<"a", "m", "a", "z", "o", "n", " ", "m", "k", "t", "p", "l", " ", "u", "s">>, <<"-", "1", "0", "0", ".", "0", "0">>, <<>>, <<>>>>, ShortRow>> }

SessionConfigs == {ConfigOf(Chase, Card)}

AmazonFiles ==
    { << AmazonRow(<<"0", "2", "/", "3", "0", "/", "2", "0", "2", "4">>, <<"1", "0", "0", ".", "0", "0">>, <<"I", "n", "k">>),
         AmazonRow(<<"0", "2", "/", "2", "2", "/", "2", "0", "2", "4">>, <<"$", "1", "0", "0", ".", "0", "0">>, <<" ", "K", "e", "t", "t", "l", "e", " ">>),
         AmazonRow(<<>>, <<"1", "0", "0", ".", "0", "0">>, <<"P", "e", "n", "s">>),
         AmazonRow(<<"0", "2", "/", "2", "6", "/", "2", "0", "2", "4">>, <<"-", "1", "0", "0", ".", "0", "0">>, <<"K", "E", "T", "T", "L", "E">>) >>,
      << AmazonRow(<<"0", "2", "/", "2", "2", "/", "2", "0", "2", "4">>, <<"1", "0", "0", ".", "0", "0">>, <<"K", "e", "t", "t", "l", "e">>),
         AmazonRow(<<"0", "2", "/", "2", "6", "/", "2", "0", "2", "4">>, None, None) >> }

LearnCategories == {<<"G", "r", "o", "c", "e", "r", "i", "e", "s">>, IGNORE_CATEGORY}


\* the window after construction: TransactionParser.__init__ has read the store
Init ==
    /\ BANK_FORMATS = PredefinedFormats
    /\ store = NoFile
    /\ class_defaults = DefaultLists
    /\ amazon_orders = <<>>
    /\ matched_amazon_orders = {}
    /\ EXPENSE_CATEGORIES = load_config(store).EXPENSE_CATEGORIES
    /\ INCOME_CATEGORIES = load_config(store).INCOME_CATEGORIES
    /\ PAYMENT_CATEGORIES = load_config(store).PAYMENT_CATEGORIES
    /\ mappings = load_config(store).mappings
    /\ shared = load_config(store).shared
    /\ IdleGui
    /\ call = Started
    /\ ret = Ok(None)

\* the load that replaces the pool and keeps the consumed set of the old one
LoadAmazonHistoryKeepingConsumed ==
    \E file \in AmazonFiles :
        \E loaded \in {load_orders(file, <<>>)} :
            /\ call' = [op |-> "load_amazon_history", file |-> file]
            /\ ret' = loaded
            /\ IF loaded.ok
               THEN /\ amazon_orders' = loaded.val
                    /\ pool_loaded_at' = Len(heap)
               ELSE UNCHANGED <<amazon_orders, pool_loaded_at>>
            /\ UNCHANGED <<registryVars, mappings, EXPENSE_CATEGORIES, INCOME_CATEGORIES,
                           PAYMENT_CATEGORIES, classVars, store, heap, all_transactions,
                           matched_amazon_orders,
                           pending_categorizations, current_categorization_index>>

LoadAmazonHistory ==
    \E file \in AmazonFiles :
        \E loaded \in {load_orders(file, <<>>)} :
            /\ call' = [op |-> "load_amazon_history", file |-> file]
            /\ ret' = loaded
            /\ IF loaded.ok
               THEN /\ amazon_orders' = loaded.val
                    /\ matched_amazon_orders' = {}
                    /\ pool_loaded_at' = Len(heap)
               ELSE UNCHANGED <<amazon_orders, matched_amazon_orders, pool_loaded_at>>
            /\ UNCHANGED <<registryVars, mappings, EXPENSE_CATEGORIES, INCOME_CATEGORIES,
                           PAYMENT_CATEGORIES, classVars, store, heap, all_transactions,
                           pending_categorizations, current_categorization_index>>

\* add_csv_file never passes has_header: every file is read as header-based.
\* The tab change it ends with calls show_current_categorization, which finds
\* the index below the length of the list it has just extended.
add_csv_file(files, configs) ==
    \E file \in files, cfg \in configs :
        /\ Len(heap) + Len(file) - 1 <= MaxTransactions
        /\ \E parsed \in {parse_csv_with_callback(file, cfg, amazon_orders,
                                                   matched_amazon_orders, mappings)} :
           LET ids == [i \in 1..Len(parsed.val) |-> Len(heap) + i]
           IN  /\ call' = [op |-> "add_csv_file", file |-> file, cfg |-> cfg]
               /\ matched_amazon_orders' = parsed.matched
               /\ IF parsed.ok
                  THEN /\ ret' = Ok(ids)
                       /\ heap' = heap \o parsed.val
                       /\ all_transactions' = all_transactions \o ids
                       /\ pending_categorizations' =
                              pending_categorizations \o
                              uncategorized_descriptions(ids, heap \o parsed.val, {})
                  ELSE /\ ret' = Raise(parsed.exc)
                       /\ UNCHANGED <<heap, all_transactions, pending_categorizations>>
               /\ UNCHANGED <<registryVars, amazon_orders, mappings, EXPENSE_CATEGORIES,
                              INCOME_CATEGORIES, PAYMENT_CATEGORIES, classVars, store,
                              current_categorization_index, pool_loaded_at>>

AddCsvFile == add_csv_file(SessionFiles, SessionConfigs)

ApplyCategoryDirect ==
    /\ current_categorization_index < Len(pending_categorizations)
    /\ LET id == pending_categorizations[current_categorization_index + 1]
           txn == heap[id]
       IN  \E category \in LearnCategories :
             /\ InList(category, category_buttons(txn))
             /\ LET normalized == normalize_description(txn.description)
                    shown == show_current_categorization(pending_categorizations,
                                                         current_categorization_index + 1)
                IN  /\ call' = [op |-> "apply_category_direct", category |-> category,
                                description |-> txn.description]
                    /\ ret' = Ok(None)
                    /\ mappings' = FcnSet(mappings, normalized, category)
                    /\ store' = save_mappings(FcnSet(mappings, normalized, category))
                    /\ heap' = apply_to_matching([heap EXCEPT ![id].category = category],
                                                 all_transactions, txn.description, category)
                    /\ pending_categorizations' = shown.pending
                    /\ current_categorization_index' = shown.index
    /\ UNCHANGED <<registryVars, amazon_orders, matched_amazon_orders, EXPENSE_CATEGORIES,
                   INCOME_CATEGORIES, PAYMENT_CATEGORIES, classVars, all_transactions, pool_loaded_at>>

SkipCategorization ==
    /\ current_categorization_index < Len(pending_categorizations)
    /\ LET shown == show_current_categorization(pending_categorizations,
                                                current_categorization_index + 1)
       IN  /\ pending_categorizations' = shown.pending
           /\ current_categorization_index' = shown.index
    /\ call' = [op |-> "skip_categorization"]
    /\ ret' = Ok(None)
    /\ UNCHANGED <<registryVars, parserVars, heap, all_transactions, pool_loaded_at>>

\* the selection is a row of the review list, which shows every transaction
\* of all_transactions under the filter "All"
UpdateTransactionCategory ==
    \E selection \in 1..Len(all_transactions), new_category \in LearnCategories :
        LET selected == heap[all_transactions[selection]]
            k == first_fit(all_transactions, heap, iso_date(selected.date),
                           displayed_description(selected.description))
            id == all_transactions[k]
            normalized == normalize_description(heap[id].description)
        IN  /\ InList(new_category, all_categories)
            /\ k # 0
            /\ call' = [op |-> "update_transaction_category", category |-> new_category,
                        description |-> heap[id].description,
                        selection |-> all_transactions[selection]]
            /\ ret' = Ok(id)
            /\ heap' = [heap EXCEPT ![id].category = new_category]
            /\ mappings' = FcnSet(mappings, normalized, new_category)
            /\ store' = save_mappings(FcnSet(mappings, normalized, new_category))
            /\ UNCHANGED <<registryVars, amazon_orders, matched_amazon_orders,
                           EXPENSE_CATEGORIES, INCOME_CATEGORIES, PAYMENT_CATEGORIES, classVars,
                           all_transactions, pending_categorizations,
                           current_categorization_index, pool_loaded_at>>

DeleteTransaction ==
    \E selection \in 1..Len(all_transactions) :
        LET selected == heap[all_transactions[selection]]
            k == first_fit(all_transactions, heap, iso_date(selected.date),
                           displayed_description(selected.description))
        IN  /\ k # 0
            /\ call' = [op |-> "delete_transaction",
                        selection |-> all_transactions[selection]]
            /\ ret' = Ok(all_transactions[k])
            /\ all_transactions' = SubSeq(all_transactions, 1, k - 1) \o
                                   SubSeq(all_transactions, k + 1, Len(all_transactions))
            /\ UNCHANGED <<registryVars, parserVars, heap, pending_categorizations,
                           current_categorization_index, pool_loaded_at>>

\* the Save button: parser.save_config on the file of the settings tab
SaveConfig ==
    /\ store' = save_config(EXPENSE_CATEGORIES, INCOME_CATEGORIES, PAYMENT_CATEGORIES,
                            mappings)
    /\ call' = [op |-> "save_config"]
    /\ ret' = Ok(None)
    /\ UNCHANGED <<registryVars, amazon_orders, matched_amazon_orders, mappings,
                   EXPENSE_CATEGORIES, INCOME_CATEGORIES, PAYMENT_CATEGORIES, classVars, guiVars>>

\* the Load button: parser._load_config on the file of the settings tab
LoadConfig ==
    /\ store.exists
    /\ EXPENSE_CATEGORIES' = load_config(store).EXPENSE_CATEGORIES
    /\ INCOME_CATEGORIES' = load_config(store).INCOME_CATEGORIES
    /\ PAYMENT_CATEGORIES' = load_config(store).PAYMENT_CATEGORIES
    /\ mappings' = load_config(store).mappings
    /\ shared' = load_config(store).shared
    /\ call' = [op |-> "load_config"]
    /\ ret' = Ok(None)
    /\ UNCHANGED <<registryVars, amazon_orders, matched_amazon_orders, store, guiVars,
                   class_defaults>>

DeleteMapping ==
    \E desc \in DOMAIN mappings :
        /\ mappings' = [k \in DOMAIN mappings \ {desc} |-> mappings[k]]
        /\ call' = [op |-> "delete_mapping", description |-> desc]
        /\ ret' = Ok(None)
        /\ UNCHANGED <<registryVars, amazon_orders, matched_amazon_orders, store,
                       EXPENSE_CATEGORIES, INCOME_CATEGORIES, PAYMENT_CATEGORIES, classVars, guiVars>>

ClearAllMappings ==
    /\ mappings' = <<>>
    /\ call' = [op |-> "clear_all_mappings"]
    /\ ret' = Ok(None)
    /\ UNCHANGED <<registryVars, amazon_orders, matched_amazon_orders, store,
                   EXPENSE_CATEGORIES, INCOME_CATEGORIES, PAYMENT_CATEGORIES, classVars, guiVars>>

Next ==
    \/ LoadAmazonHistory
    \/ AddCsvFile
    \/ ApplyCategoryDirect
    \/ SkipCategorization
    \/ UpdateTransactionCategory
    \/ DeleteTransaction
    \/ SaveConfig
    \/ LoadConfig
    \/ DeleteMapping
    \/ ClearAllMappings

Spec == Init /\ [][Next]_vars

----------------------------------------------------------------------------
(* The summary workbook: export_to_excel writes it, load_existing_summary  *)
(* reads it back. A sheet is its rows of cell values, the header row first. *)
(* The two monthly sheets are written and never read back.                 *)

MaxExportTxns == 2

SheetHeaders == <<<<"D", "a", "t", "e">>, <<"D", "e", "s", "c", "r", "i", "p", "t", "i", "o", "n">>, <<"A", "m", "o", "u", "n", "t">>, <<"C", "a", "t", "e", "g", "o", "r", "y">>, <<"S", "o", "u", "r", "c", "e">>>>

\* the row _write_transaction_sheet writes for one transaction
sheet_row_dropping_source(txn) ==
    <<iso_date(txn.date), txn.description, abs(txn.amount), txn.category>>

sheet_row(txn) ==
    <<iso_date(txn.date), txn.description, abs(txn.amount), txn.category, txn.source>>

write_transaction_sheet(transactions) ==
    <<SheetHeaders>> \o [i \in 1..Len(transactions) |-> sheet_row(transactions[i])]

\* the order sorted() gives the month keys: character by character
CharCode(c) == IF c = "-" THEN 45 ELSE 48 + DigitVal(c)

RECURSIVE text_less(_, _)
text_less(a, b) ==
    IF b = <<>> THEN FALSE
    ELSE IF a = <<>> THEN TRUE
    ELSE IF a[1] = b[1] THEN text_less(Tail(a), Tail(b))
    ELSE CharCode(a[1]) < CharCode(b[1])

RECURSIVE sorted_keys(_)
sorted_keys(keys) ==
    IF keys = {} THEN <<>>
    ELSE With(CHOOSE k \in keys : \A o \in keys \ {k} : text_less(k, o), LAMBDA first :
             <<first>> \o sorted_keys(keys \ {first}))

SummaryHeaders == <<<<"M", "o", "n", "t", "h">>, <<"T", "o", "t", "a", "l", " ", "I", "n", "c", "o", "m", "e">>, <<"T", "o", "t", "a", "l", " ", "E", "x", "p", "e", "n", "s", "e", "s">>, <<"N", "e", "t", " ", "I", "n", "c", "o", "m", "e">>>>

\* the row _write_summary_sheet writes for one month
summary_row(month, data) ==
    <<month, data.income, data.expenses, data.income - data.expenses>>

write_summary_sheet(monthly_summary) ==
    With(sorted_keys(DOMAIN monthly_summary), LAMBDA sorted_months :
        <<SummaryHeaders>> \o
        [i \in 1..Len(sorted_months) |->
            summary_row(sorted_months[i], monthly_summary[sorted_months[i]])])

\* the cells of one month, one for each expense category in taxonomy order
breakdown_cells(breakdown, expense_categories) ==
    [i \in 1..Len(expense_categories) |-> DefaultGet(breakdown, expense_categories[i], 0)]

RECURSIVE month_total(_)
month_total(cells) ==
    IF cells = <<>> THEN 0 ELSE Head(cells) + month_total(Tail(cells))

\* the row _write_expense_breakdown_sheet writes for one month
breakdown_row(month, breakdown, expense_categories) ==
    With(breakdown_cells(breakdown, expense_categories), LAMBDA cells :
        <<month>> \o cells \o <<month_total(cells)>>)

write_expense_breakdown_sheet(monthly_expense_breakdown, expense_categories) ==
    With(sorted_keys(DOMAIN monthly_expense_breakdown), LAMBDA sorted_months :
        <<<<<<"M", "o", "n", "t", "h">>>> \o expense_categories \o <<<<"T", "o", "t", "a", "l">>>>>> \o
        [i \in 1..Len(sorted_months) |->
            breakdown_row(sorted_months[i], monthly_expense_breakdown[sorted_months[i]],
                          expense_categories)])

export_to_excel(expenses, income, payments, monthly_summary, monthly_expense_breakdown, expense_categories) ==
    [MonthlySummary |-> write_summary_sheet(monthly_summary),
     MonthlyExpenseBreakdown |->
         write_expense_breakdown_sheet(monthly_expense_breakdown, expense_categories),
     Expenses |-> write_transaction_sheet(expenses),
     Income |-> write_transaction_sheet(income),
     Payments |-> write_transaction_sheet(payments)]

SheetNames == <<"Expenses", "Income", "Payments">>

\* the transaction load_existing_summary builds from one row (it has no
\* amazon_order_id key); NotFound for a row it passes over
loaded_row(sheet_name, row) ==
    IF ~Truthy(row[1]) THEN NotFound
    ELSE With(strptime(row[1], <<"%", "Y", "-", "%", "m", "-", "%", "d">>), LAMBDA date :
         IF ~date.ok THEN NotFound
         ELSE Some([date |-> date.val,
                    description |-> row[2],
                    amount |-> IF sheet_name = "Expenses" THEN -abs(row[3]) ELSE abs(row[3]),
                    category |-> row[4],
                    source |-> IF Len(row) > 4 THEN row[5] ELSE <<"U", "n", "k", "n", "o", "w", "n">>]))

RECURSIVE loaded_rows(_, _, _)
loaded_rows(sheet_name, rows, loaded) ==
    IF rows = <<>> THEN loaded
    ELSE With(loaded_row(sheet_name, Head(rows)), LAMBDA txn :
             loaded_rows(sheet_name, Tail(rows),
                         IF txn.found THEN Append(loaded, txn.val) ELSE loaded))

\* rows are read from the second row on, sheet after sheet
loaded_transactions(wb) ==
    With(loaded_rows("Expenses", Tail(wb.Expenses), <<>>), LAMBDA e :
    With(loaded_rows("Income", Tail(wb.Income), e), LAMBDA ei :
         loaded_rows("Payments", Tail(wb.Payments), ei)))

ExportDates == {Date(2024, 1, 15), Date(2023, 12, 31)}
ExportAmounts == {-5000, 0, 2500}
ExportCategories == {<<"G", "r", "o", "c", "e", "r", "i", "e", "s">>, <<"S", "a", "l", "a", "r", "y">>, <<"C", "a", "r", "d", " ", "P", "a", "y", "m", "e", "n", "t">>, IGNORE_CATEGORY, Uncategorized}
ExportDescriptions == {<<"s", "h", "o", "p">>, <<"K", "e", "t", "t", "l", "e", ",", " ", "P", "e", "n", "s">>}

ExportTxns ==
    { Txn(date, description, amount, category, Card, NotFound) :
        date \in ExportDates, description \in ExportDescriptions,
        amount \in ExportAmounts, category \in ExportCategories }

InitExport ==
    /\ BANK_FORMATS = PredefinedFormats
    /\ IdleParser
    /\ heap \in SeqsUpTo(ExportTxns, MaxExportTxns)
    /\ all_transactions = [i \in 1..Len(heap) |-> i]
    /\ pending_categorizations = <<>>
    /\ current_categorization_index = 0
    /\ pool_loaded_at = 0
    /\ call = Started
    /\ ret = Ok(None)

\* export_summary; ret holds the workbook written to output_file
ExportSummary ==
    /\ all_transactions # <<>>
    /\ call.op # "export_summary"
    /\ Len(heap) <= MaxExportTxns
    /\ \E summary \in {generate_summary([i \in 1..Len(all_transactions) |-> heap[all_transactions[i]]],
                                        EXPENSE_CATEGORIES, PAYMENT_CATEGORIES)} :
          /\ call' = [op |-> "export_summary", summary |-> summary]
          /\ ret' = Ok(export_to_excel(summary.expenses, summary.income, summary.payments,
                                       summary.monthly_data,
                                       summary.monthly_expense_breakdown,
                                       EXPENSE_CATEGORIES))
    /\ UNCHANGED <<registryVars, parserVars, guiVars>>

\* load_existing_summary on the workbook just exported
LoadExistingSummary ==
    /\ call.op = "export_summary"
    /\ \E loaded \in {loaded_transactions(ret.val)} :
          /\ heap' = heap \o loaded
          /\ all_transactions' =
                all_transactions \o [i \in 1..Len(loaded) |-> Len(heap) + i]
          /\ call' = [op |-> "load_existing_summary", summary |-> call.summary,
                      workbook |-> ret.val, loaded |-> Len(loaded)]
          /\ ret' = Ok(None)
    /\ UNCHANGED <<registryVars, parserVars, pending_categorizations,
                   current_categorization_index, pool_loaded_at>>

NextExport ==
    \/ ExportSummary
    \/ LoadExistingSummary

SpecExport == InitExport /\ [][NextExport]_vars

----------------------------------------------------------------------------
(* The store on its own: a parser holding a taxonomy and mappings, a file  *)
(* with some content; the file is written, or not, and then loaded.        *)

Pets == <<<<"R", "e", "n", "t">>, <<"P", "e", "t", "s">>, <<"G", "r", "o", "c", "e", "r", "i", "e", "s">>>>
StoreTaxonomies ==
    { [expense |-> DEFAULT_EXPENSE_CATEGORIES, income |-> DEFAULT_INCOME_CATEGORIES,
       payment |-> DEFAULT_PAYMENT_CATEGORIES],
      [expense |-> Pets, income |-> DEFAULT_INCOME_CATEGORIES,
       payment |-> DEFAULT_PAYMENT_CATEGORIES],
      [expense |-> Pets, income |-> <<<<"B", "o", "n", "u", "s">>, <<"S", "a", "l", "a", "r", "y">>, <<"G", "i", "f", "t">>>>,
       payment |-> <<<<"T", "r", "a", "n", "s", "f", "e", "r">>, <<"R", "e", "t", "u", "r", "n">>>>],
      [expense |-> <<>>, income |-> <<>>, payment |-> <<>>] }

\* mappings the session has learned; one of the descriptions is "Mappings"
StoreMappings ==
    { <<>>,
      [k \in {<<"w", "h", "o", "l", "e", " ", "f", "o", "o", "d", "s">>} |-> <<"G", "r", "o", "c", "e", "r", "i", "e", "s">>],
      [k \in {<<"w", "h", "o", "l", "e", " ", "f", "o", "o", "d", "s">>, <<"u", "s", "b", " ", "c", "a", "b", "l", "e">>} |->
          IF k = <<"w", "h", "o", "l", "e", " ", "f", "o", "o", "d", "s">> THEN <<"R", "e", "s", "t", "a", "u", "r", "a", "n", "t", "s">> ELSE IGNORE_CATEGORY],
      [k \in {<<"w", "h", "o", "l", "e", " ", "f", "o", "o", "d", "s">>, <<"m", "a", "p", "p", "i", "n", "g", "s">>} |-> <<"G", "r", "o", "c", "e", "r", "i", "e", "s">>] }

File(doc) == [exists |-> TRUE, doc |-> doc]

StoreFiles ==
    { NoFile,
      File(NotJson),
      File(JsonArray(<<>>)),
      File(JsonObject([k \in {<<"p", "a", "y", "m", "e", "n", "t", "_", "c", "a", "t", "e", "g", "o", "r", "i", "e", "s">>} |-> JsonNull])),
      File(JsonObject([k \in {<<"e", "x", "p", "e", "n", "s", "e", "_", "c", "a", "t", "e", "g", "o", "r", "i", "e", "s">>} |-> JsonNull])),
      File(JsonObject([k \in {<<"m", "a", "p", "p", "i", "n", "g", "s">>} |-> JsonNull])),
      File(JsonObject([k \in {<<"i", "n", "c", "o", "m", "e", "_", "c", "a", "t", "e", "g", "o", "r", "i", "e", "s">>} |-> json_dump_list(<<<<"S", "a", "l", "a", "r", "y">>, <<"G", "i", "f", "t">>>>)])),
      File(config_document(Pets, DEFAULT_INCOME_CATEGORIES, DEFAULT_PAYMENT_CATEGORIES,
                           [k \in {<<"p", "e", "t", " ", "s", "h", "o", "p">>} |-> <<"P", "e", "t", "s">>])) }

InitStore ==
    /\ BANK_FORMATS = PredefinedFormats
    /\ amazon_orders = <<>>
    /\ matched_amazon_orders = {}
    /\ mappings \in StoreMappings
    /\ \E taxonomy \in StoreTaxonomies :
          /\ EXPENSE_CATEGORIES = taxonomy.expense
          /\ INCOME_CATEGORIES = taxonomy.income
          /\ PAYMENT_CATEGORIES = taxonomy.payment
    /\ PristineClass
    /\ store \in StoreFiles
    /\ IdleGui
    /\ call = Started
    /\ ret = Ok(None)

\* parser.save_config
StoreSaveConfig ==
    /\ call = Started
    /\ store' = save_config(EXPENSE_CATEGORIES, INCOME_CATEGORIES, PAYMENT_CATEGORIES,
                            mappings)
    /\ call' = [op |-> "save_config", expense |-> EXPENSE_CATEGORIES,
                income |-> INCOME_CATEGORIES, payment |-> PAYMENT_CATEGORIES,
                mapping |-> mappings]
    /\ ret' = Ok(None)
    /\ UNCHANGED <<registryVars, amazon_orders, matched_amazon_orders, mappings,
                   EXPENSE_CATEGORIES, INCOME_CATEGORIES, PAYMENT_CATEGORIES, classVars, guiVars>>

\* parser._save_mappings
StoreSaveMappings ==
    /\ call = Started
    /\ store' = save_mappings(mappings)
    /\ call' = [op |-> "_save_mappings"]
    /\ ret' = Ok(None)
    /\ UNCHANGED <<registryVars, amazon_orders, matched_amazon_orders, mappings,
                   EXPENSE_CATEGORIES, INCOME_CATEGORIES, PAYMENT_CATEGORIES, classVars, guiVars>>

\* parser._load_config
StoreLoadConfig ==
    /\ call.op \in {"start", "save_config", "_save_mappings"}
    /\ \E loaded \in {load_config(store)} :
          /\ EXPENSE_CATEGORIES' = loaded.EXPENSE_CATEGORIES
          /\ INCOME_CATEGORIES' = loaded.INCOME_CATEGORIES
          /\ PAYMENT_CATEGORIES' = loaded.PAYMENT_CATEGORIES
          /\ mappings' = loaded.mappings
          /\ shared' = loaded.shared
    /\ call' = [op |-> "_load_config", after |-> call]
    /\ ret' = Ok(None)
    /\ UNCHANGED <<registryVars, amazon_orders, matched_amazon_orders, store, guiVars,
                   class_defaults>>

NextStore ==
    \/ StoreSaveConfig
    \/ StoreSaveMappings
    \/ StoreLoadConfig

SpecStore == InitStore /\ [][NextStore]_vars


----------------------------------------------------------------------------
(* The import form of the main window: a file is browsed, a format is      *)
(* detected or picked, the fields of the form are filled from it, and the  *)
(* file is imported with what the form holds.                              *)

MaxImportRows == 2

\* the column fields of the form as create_main_frame leaves them
DefaultForm ==
    [date_col |-> <<"D", "a", "t", "e">>, desc_col |-> <<"D", "e", "s", "c", "r", "i", "p", "t", "i", "o", "n">>, amount_col |-> <<"A", "m", "o", "u", "n", "t">>,
     debit_col |-> <<>>, credit_col |-> <<>>, date_format |-> <<"%", "m", "/", "%", "d", "/", "%", "Y">>,
     invert_amounts |-> FALSE]

\* on_bank_format_selected: the form after format_name was picked in the box
on_bank_format_selected(form, format_name) ==
    IF format_name = <<>> \/ format_name = <<"S", "e", "l", "e", "c", "t", " ", "a", " ", "F", "o", "r", "m", "a", "t">> THEN form
    ELSE LET bank_format == get_bank_format_by_name(format_name)
         IN  IF ~bank_format.found THEN form
             ELSE LET fmt == bank_format.val
                  IN  [date_col |-> fmt.date_col,
                       desc_col |-> fmt.desc_col,
                       amount_col |-> IF Truthy(fmt.amount_col) THEN fmt.amount_col
                                      ELSE <<"A", "m", "o", "u", "n", "t">>,
                       debit_col |-> IF Truthy(fmt.amount_col) \/ ~Truthy(fmt.debit_col)
                                     THEN <<>> ELSE fmt.debit_col,
                       credit_col |-> IF Truthy(fmt.amount_col) \/ ~Truthy(fmt.credit_col)
                                      THEN <<>> ELSE fmt.credit_col,
                       date_format |-> fmt.date_format,
                       invert_amounts |-> fmt.invert_amounts]

\* the arguments add_csv_file hands to parse_csv_with_callback: nine of them,
\* has_header is not among them and keeps its default
add_csv_file_config(form, source) ==
    ParseConfig(form.date_col, form.desc_col, form.amount_col, source, form.date_format,
                form.invert_amounts,
                IF form.debit_col # <<>> THEN form.debit_col ELSE None,
                IF form.credit_col # <<>> THEN form.credit_col ELSE None,
                TRUE)

\* rows of a Wells Fargo export: date, amount, star, check number, description
WellsFargoRows ==
    { <<<<"0", "1", "/", "1", "5", "/", "2", "0", "2", "4">>, <<"-", "5", "4", ".", "3", "2">>, <<"*">>, <<>>, <<"W", "H", "O", "L", "E", " ", "F", "O", "O", "D", "S">>>>,
      <<<<"0", "1", "/", "1", "6", "/", "2", "0", "2", "4">>, <<"1", ",", "2", "3", "4", ".", "0", "0">>, <<"*">>, <<>>, <<"P", "a", "y", "r", "o", "l", "l">>>>,
      <<<<"0", "1", "/", "1", "7", "/", "2", "0", "2", "4">>, <<"n", "/", "a">>, <<"*">>, <<>>, <<"P", "E", "N", "D", "I", "N", "G">>>>,
      <<<<"2", "0", "2", "4", "-", "0", "1", "-", "1", "8">>, <<"-", "1", ".", "0", "0">>, <<"*">>, <<>>, <<"W", "H", "O", "L", "E", " ", "F", "O", "O", "D", "S">>>> }

ImportFiles ==
    SeqsUpTo(WellsFargoRows, MaxImportRows)
    \cup {<<FileHeader>> \o rows : rows \in SeqsUpTo(RowCells, 1)}

InitImport ==
    /\ BANK_FORMATS = PredefinedFormats
    /\ IdleParser
    /\ IdleGui
    /\ \E file \in ImportFiles :
         call = [op |-> "start", file |-> file, form |-> DefaultForm, picked |-> <<>>]
    /\ ret = Ok(None)

\* browse_csv_file: the first row of the chosen file is read and, when a
\* format is detected from it, the box is set and the form filled
BrowseCsvFile ==
    /\ call.op = "start"
    /\ LET detected == IF call.file = <<>> THEN NotFound
                       ELSE detect_bank_format_from_headers(call.file[1])
       IN  /\ call' = [op |-> "browse_csv_file", file |-> call.file,
                       form |-> IF detected.found
                                THEN on_bank_format_selected(call.form, detected.val.name)
                                ELSE call.form,
                       picked |-> IF detected.found THEN detected.val.name
                                  ELSE call.picked]
           /\ ret' = Ok(None)
    /\ UNCHANGED <<registryVars, parserVars, guiVars>>

\* the user picks a format in the box
OnBankFormatSelected ==
    /\ call.op \in {"start", "browse_csv_file"}
    /\ \E i \in 1..Len(get_all_bank_names) :
         LET format_name == get_all_bank_names[i]
         IN  /\ call' = [op |-> "on_bank_format_selected", file |-> call.file,
                         form |-> on_bank_format_selected(call.form, format_name),
                         picked |-> format_name]
             /\ ret' = Ok(None)
    /\ UNCHANGED <<registryVars, parserVars, guiVars>>

\* add_csv_file with the file and the fields of the form
AddCsvFileFromForm ==
    /\ call.op \in {"browse_csv_file", "on_bank_format_selected"}
    /\ \E parsed \in {parse_csv_with_callback(call.file,
                                               add_csv_file_config(call.form, Card),
                                               amazon_orders, matched_amazon_orders,
                                               mappings)} :
         LET ids == [i \in 1..Len(parsed.val) |-> Len(heap) + i]
         IN  /\ call' = [op |-> "add_csv_file", file |-> call.file, form |-> call.form,
                         picked |-> call.picked]
             /\ matched_amazon_orders' = parsed.matched
             /\ IF parsed.ok
                THEN /\ ret' = Ok(ids)
                     /\ heap' = heap \o parsed.val
                     /\ all_transactions' = all_transactions \o ids
                     /\ pending_categorizations' =
                            pending_categorizations \o
                            uncategorized_descriptions(ids, heap \o parsed.val, {})
                ELSE /\ ret' = Raise(parsed.exc)
                     /\ UNCHANGED <<heap, all_transactions, pending_categorizations>>
             /\ UNCHANGED <<registryVars, amazon_orders, mappings, EXPENSE_CATEGORIES,
                            INCOME_CATEGORIES, PAYMENT_CATEGORIES, classVars, store,
                            current_categorization_index, pool_loaded_at>>

NextImport == BrowseCsvFile \/ OnBankFormatSelected \/ AddCsvFileFromForm

SpecImport == InitImport /\ [][NextImport]_vars

----------------------------------------------------------------------------
(* The category editor of the settings tab: names are added to and removed *)
(* from the taxonomy of the type shown in the type box, and a store file   *)
(* is loaded, over a session that holds transactions and mappings.         *)

CategoryTypes == {"Expense", "Income", "Payment"}

\* the if / elif / else over cat_type
kind_of(cat_type) ==
    IF cat_type = "Expense" THEN "expense"
    ELSE IF cat_type = "Income" THEN "income" ELSE "payment"

taxonomy_of(cat_type) ==
    IF cat_type = "Expense" THEN EXPENSE_CATEGORIES
    ELSE IF cat_type = "Income" THEN INCOME_CATEGORIES ELSE PAYMENT_CATEGORIES

\* list.remove(x): the first occurrence goes, ValueError when there is none
list_remove(list, x) ==
    IF ~InList(x, list) THEN Raise("ValueError")
    ELSE LET first == CHOOSE i \in 1..Len(list) :
                          list[i] = x /\ \A j \in 1..(i - 1) : list[j] # x
         IN  Ok(SubSeq(list, 1, first - 1) \o SubSeq(list, first + 1, Len(list)))

\* a taxonomy list changed where it stands (append, remove): the list of the
\* class changes with it when the two are one object
mutate_in_place(kind, list) ==
    /\ EXPENSE_CATEGORIES' = IF kind = "expense" THEN list ELSE EXPENSE_CATEGORIES
    /\ INCOME_CATEGORIES' = IF kind = "income" THEN list ELSE INCOME_CATEGORIES
    /\ PAYMENT_CATEGORIES' = IF kind = "payment" THEN list ELSE PAYMENT_CATEGORIES
    /\ class_defaults' = IF kind \in shared THEN [class_defaults EXCEPT ![kind] = list]
                         ELSE class_defaults
    /\ UNCHANGED shared

\* what the user types into the new-category box
NewCategoryTexts == {<<" ", "P", "e", "t", "s", " ">>, <<>>}

\* the names the user picks in the list box
DeleteChoices == {<<"G", "r", "o", "c", "e", "r", "i", "e", "s">>, <<"P", "e", "t", "s">>}

CategoryFiles ==
    { NoFile,
      \* written by _save_mappings
      File(json_dump_dict([k \in {<<"w", "h", "o", "l", "e", " ", "f", "o", "o", "d", "s">>} |-> <<"G", "r", "o", "c", "e", "r", "i", "e", "s">>])),
      File(JsonObject([k \in {<<"i", "n", "c", "o", "m", "e", "_", "c", "a", "t", "e", "g", "o", "r", "i", "e", "s">>} |-> json_dump_list(<<<<"S", "a", "l", "a", "r", "y">>, <<"G", "i", "f", "t">>>>)])),
      File(config_document(Pets, DEFAULT_INCOME_CATEGORIES, DEFAULT_PAYMENT_CATEGORIES,
                           [k \in {<<"p", "e", "t", " ", "s", "h", "o", "p">>} |-> <<"P", "e", "t", "s">>])) }

CategoryHeaps ==
    { << Txn(Feb26, <<"W", "H", "O", "L", "E", " ", "F", "O", "O", "D", "S">>, -5000, <<"G", "r", "o", "c", "e", "r", "i", "e", "s">>, Card, NotFound),
         Txn(Feb26, <<"p", "e", "t", " ", "s", "h", "o", "p">>, -2500, <<"P", "e", "t", "s">>, Card, NotFound) >> }

CategoryMappings ==
    { [k \in {<<"w", "h", "o", "l", "e", " ", "f", "o", "o", "d", "s">>, <<"p", "e", "t", " ", "s", "h", "o", "p">>} |->
          IF k = <<"w", "h", "o", "l", "e", " ", "f", "o", "o", "d", "s">> THEN <<"G", "r", "o", "c", "e", "r", "i", "e", "s">> ELSE <<"P", "e", "t", "s">>] }

\* a parser constructed over the store file, then a session with transactions
\* and learned mappings
InitCategories ==
    /\ BANK_FORMATS = PredefinedFormats
    /\ amazon_orders = <<>>
    /\ matched_amazon_orders = {}
    /\ store \in CategoryFiles
    /\ class_defaults = DefaultLists
    /\ EXPENSE_CATEGORIES = load_config(store).EXPENSE_CATEGORIES
    /\ INCOME_CATEGORIES = load_config(store).INCOME_CATEGORIES
    /\ PAYMENT_CATEGORIES = load_config(store).PAYMENT_CATEGORIES
    /\ shared = load_config(store).shared
    /\ mappings \in CategoryMappings
    /\ heap \in CategoryHeaps
    /\ all_transactions = [i \in 1..Len(heap) |-> i]
    /\ pending_categorizations = <<>>
    /\ current_categorization_index = 0
    /\ pool_loaded_at = 0
    /\ call = Started
    /\ ret = Ok(None)

\* the names the list box can show: those of the taxonomy that was refreshed
\* last, whatever type is in the box now
listbox_names ==
    {name \in DeleteChoices : \/ InList(name, EXPENSE_CATEGORIES)
                              \/ InList(name, INCOME_CATEGORIES)
                              \/ InList(name, PAYMENT_CATEGORIES)}

\* a removal that takes the mappings pointing to the name with it
DeleteCategoryWithMappings ==
    \E cat_type \in CategoryTypes :
        \E cat_name \in listbox_names :
            \E removed \in {list_remove(taxonomy_of(cat_type), cat_name)} :
                /\ call' = [op |-> "delete_category", cat_type |-> cat_type,
                            cat_name |-> cat_name]
                /\ IF removed.ok
                   THEN /\ mutate_in_place(kind_of(cat_type), removed.val)
                        /\ ret' = Ok(None)
                   ELSE /\ ret' = Raise(removed.exc)
                        /\ UNCHANGED <<EXPENSE_CATEGORIES, INCOME_CATEGORIES,
                                       PAYMENT_CATEGORIES, classVars>>
                /\ mappings' = [k \in {k \in DOMAIN mappings : mappings[k] # cat_name}
                                  |-> mappings[k]]
                /\ UNCHANGED <<registryVars, amazon_orders, matched_amazon_orders,
                               store, guiVars>>

\* delete_category, the confirmation answered yes.  The list box shows the
\* taxonomy of the type that was in the box at the last refresh, so the name
\* picked may not be in the taxonomy of the type in the box now.
DeleteCategory ==
    \E cat_type \in CategoryTypes :
        \E cat_name \in listbox_names :
            \E removed \in {list_remove(taxonomy_of(cat_type), cat_name)} :
                /\ call' = [op |-> "delete_category", cat_type |-> cat_type,
                            cat_name |-> cat_name]
                /\ IF removed.ok
                   THEN /\ mutate_in_place(kind_of(cat_type), removed.val)
                        /\ ret' = Ok(None)
                   ELSE /\ ret' = Raise(removed.exc)
                        /\ UNCHANGED <<EXPENSE_CATEGORIES, INCOME_CATEGORIES,
                                       PAYMENT_CATEGORIES, classVars>>
                /\ UNCHANGED <<registryVars, amazon_orders, matched_amazon_orders,
                               mappings, store, guiVars>>

\* add_category
AddCategory ==
    \E cat_type \in CategoryTypes, text \in NewCategoryTexts :
        LET new_cat == strip(text)
        IN  /\ call' = [op |-> "add_category", cat_type |-> cat_type, new_cat |-> new_cat]
            /\ ret' = Ok(None)
            /\ IF new_cat = <<>> \/ InList(new_cat, taxonomy_of(cat_type))
               THEN UNCHANGED <<EXPENSE_CATEGORIES, INCOME_CATEGORIES, PAYMENT_CATEGORIES,
                                classVars>>
               ELSE mutate_in_place(kind_of(cat_type),
                                    Append(taxonomy_of(cat_type), new_cat))
            /\ UNCHANGED <<registryVars, amazon_orders, matched_amazon_orders, mappings,
                           store, guiVars>>

\* the Load button of the settings tab over the store file
CategoriesLoadConfig ==
    /\ store.exists
    /\ \E loaded \in {load_config(store)} :
          /\ EXPENSE_CATEGORIES' = loaded.EXPENSE_CATEGORIES
          /\ INCOME_CATEGORIES' = loaded.INCOME_CATEGORIES
          /\ PAYMENT_CATEGORIES' = loaded.PAYMENT_CATEGORIES
          /\ mappings' = loaded.mappings
          /\ shared' = loaded.shared
    /\ call' = [op |-> "load_config"]
    /\ ret' = Ok(None)
    /\ UNCHANGED <<registryVars, amazon_orders, matched_amazon_orders, store, guiVars,
                   class_defaults>>

\* _use_defaults, as _load_config calls it for a file it cannot read
CategoriesUseDefaults ==
    /\ EXPENSE_CATEGORIES' = use_defaults.EXPENSE_CATEGORIES
    /\ INCOME_CATEGORIES' = use_defaults.INCOME_CATEGORIES
    /\ PAYMENT_CATEGORIES' = use_defaults.PAYMENT_CATEGORIES
    /\ mappings' = use_defaults.mappings
    /\ shared' = use_defaults.shared
    /\ call' = [op |-> "_use_defaults"]
    /\ ret' = Ok(None)
    /\ UNCHANGED <<registryVars, amazon_orders, matched_amazon_orders, store, guiVars,
                   class_defaults>>

NextCategories ==
    \/ AddCategory
    \/ DeleteCategory
    \/ CategoriesLoadConfig
    \/ CategoriesUseDefaults

SpecCategories == InitCategories /\ [][NextCategories]_vars

----------------------------------------------------------------------------
(* The categorization wizard answered to the end: files are imported and   *)
(* every pending description is given a category, none is skipped.         *)

WizardFiles ==
    { <<FileHeader, <<<<"0", "2", "/", "2", "6", "/", "2", "0", "2", "4">>, <<"W", "h", "o", "l", "e", " ", "F", "o", "o", "d", "s">>, <<"-", "5", "4", ".", "3", "2">>, <<>>, <<>>>>,
                    <<<<"0", "2", "/", "2", "7", "/", "2", "0", "2", "4">>, <<"W", "H", "O", "L", "E", " ", "F", "O", "O", "D", "S">>, <<"-", "1", "2", ".", "0", "0">>, <<>>, <<>>>> >>,
      <<FileHeader, <<<<"0", "2", "/", "2", "6", "/", "2", "0", "2", "4">>, <<"W", "H", "O", "L", "E", " ", "F", "O", "O", "D", "S">>, <<"-", "5", "4", ".", "3", "2">>, <<>>, <<>>>>,
                    <<<<"0", "2", "/", "2", "7", "/", "2", "0", "2", "4">>, <<"W", "H", "O", "L", "E", " ", "F", "O", "O", "D", "S">>, <<"-", "1", "2", ".", "0", "0">>, <<>>, <<>>>> >>,
      <<FileHeader, <<<<"0", "2", "/", "2", "8", "/", "2", "0", "2", "4">>, <<"P", "a", "y", "r", "o", "l", "l">>, <<"1", ",", "2", "3", "4", ".", "0", "0">>, <<>>, <<>>>> >>,
      <<FileHeader, <<<<"0", "2", "/", "2", "8", "/", "2", "0", "2", "4">>, <<"R", "e", "n", "t">>, <<"-", "9", "0", "0", ".", "0", "0">>, <<>>, <<>>>> >>,
      <<FileHeader, <<<<"0", "2", "/", "2", "9", "/", "2", "0", "2", "4">>, <<"p", "a", "y", "r", "o", "l", "l">>, <<"1", ",", "2", "3", "4", ".", "0", "0">>, <<>>, <<>>>> >>,
      <<FileHeader>> }

WizardAddCsvFile == add_csv_file(WizardFiles, SessionConfigs)

NextWizard ==
    \/ WizardAddCsvFile
    \/ ApplyCategoryDirect

SpecWizard == Init /\ [][NextWizard]_vars
----------------------------------------------------------------------------
(* Properties *)

Range(seq) == {seq[i] : i \in 1..Len(seq)}
Count(seq, x) == Cardinality({i \in 1..Len(seq) : seq[i] = x})

RECURSIVE Sum(_)
Sum(ints) == IF ints = <<>> THEN 0 ELSE ints[1] + Sum(Tail(ints))

SumSeq(seq, F(_)) == Sum([i \in 1..Len(seq) |-> F(seq[i])])

\* the sum of f[x] over the domain of f
RECURSIVE SumFcn(_)
SumFcn(f) ==
    IF DOMAIN f = {} THEN 0
    ELSE LET x == CHOOSE x \in DOMAIN f : TRUE
         IN  f[x] + SumFcn([y \in DOMAIN f \ {x} |-> f[y]])

\* whole days from date a to date b
DaysFrom(a, b) == toordinal(b) - toordinal(a)

\* C1 ----------------------------------------------------------------------
\* the transaction objects that imports have produced since the order pool was
\* loaded
SincePoolLoaded == (pool_loaded_at + 1)..Len(heap)

\* C1: no two transactions imported while one order pool is loaded carry the
\* same order id.
C1_AtMostOneToOne ==
    \A i, j \in SincePoolLoaded :
        (i # j /\ heap[i].amazon_order_id.found /\ heap[j].amazon_order_id.found) =>
            heap[i].amazon_order_id.val # heap[j].amazon_order_id.val

\* a second import whose charge fits, by date and amount, the order that the
\* first import has consumed, and is bound to the next order
C1_Witness ==
    /\ call.op = "add_csv_file" /\ ret.ok
    /\ \E i, j \in SincePoolLoaded :
          /\ i < j /\ j \in Range(ret.val) /\ i \notin Range(ret.val)
          /\ heap[i].amazon_order_id.found /\ heap[j].amazon_order_id.found
          /\ \E o \in Range(amazon_orders) :
                /\ o.id = heap[i].amazon_order_id.val
                /\ DaysFrom(o.date, heap[j].date) \in 0..7
                /\ abs(o.total - abs(heap[j].amount)) < 10

\* C2 ----------------------------------------------------------------------
\* the orders of the pool a charge may be bound to, given the consumed set
\* before the lookup
EligibleOrders(date, amount, consumed) ==
    {i \in 1..Len(amazon_orders) :
        /\ amazon_orders[i].id \notin consumed
        /\ DaysFrom(amazon_orders[i].date, date) \in 0..7
        /\ abs(amazon_orders[i].total - abs(amount)) < 10}

AmazonLookup == call.op = "_process_row" /\ is_amazon_transaction(call.description)

\* C2: a lookup for an Amazon-looking charge binds the first order in load
\* order that is neither consumed nor outside the 7-day window nor 0.01 or more
\* away in amount, and consumes it; with no such order it binds nothing and
\* leaves the description and the consumed set as they were.
C2_FirstFit ==
    AmazonLookup =>
        LET E == EligibleOrders(call.date, call.amount, call.matched)
        IN  IF E = {}
            THEN /\ ret.val.amazon_order_id = NotFound
                 /\ ret.val.description = call.description
                 /\ matched_amazon_orders = call.matched
            ELSE LET k == CHOOSE i \in E : \A j \in E : i <= j
                 IN  /\ ret.val.amazon_order_id = Some(amazon_orders[k].id)
                     /\ matched_amazon_orders = call.matched \cup {amazon_orders[k].id}

\* a charge that an earlier order and a later order with the exact amount both fit
C2_Witness ==
    /\ AmazonLookup
    /\ ret.val.amazon_order_id.found
    /\ \E i, j \in EligibleOrders(call.date, call.amount, call.matched) :
          /\ i < j
          /\ amazon_orders[i].id = ret.val.amazon_order_id.val
          /\ amazon_orders[j].total = abs(call.amount)
          /\ amazon_orders[i].total # abs(call.amount)

\* C3 ----------------------------------------------------------------------
\* C3: an import never ends in an exception: whatever its rows hold, the call
\* returns a list of transactions.
C3_NeverAborts == ret # Pending => ret.ok

\* C4 ----------------------------------------------------------------------
LearnOps == {"apply_category_direct", "update_transaction_category"}

\* text up to letter case and surrounding whitespace
Canon(text) == strip(lower(text))

\* C4: after a learn, loading the store gives back the learned entry and the
\* category lists the session holds.
C4_StoreAfterLearn ==
    call.op \in LearnOps =>
        LET loaded == load_config(store)
        IN  /\ Canon(call.description) \in DOMAIN loaded.mappings
            /\ loaded.mappings[Canon(call.description)] = call.category
            /\ loaded.EXPENSE_CATEGORIES = EXPENSE_CATEGORIES
            /\ loaded.INCOME_CATEGORIES = INCOME_CATEGORIES
            /\ loaded.PAYMENT_CATEGORIES = PAYMENT_CATEGORIES

\* C5 ----------------------------------------------------------------------
\* C5: a learn writes its category under the description's normal form (letter
\* case and surrounding whitespace dropped), replacing what was there and
\* leaving every other entry as it was; an import gives each transaction the
\* category that the table holds under the normal form of its description.
C5_LearnThenCategorize ==
    [][/\ call'.op \in LearnOps =>
              /\ Canon(call'.description) \in DOMAIN mappings'
              /\ mappings'[Canon(call'.description)] = call'.category
              /\ \A k \in DOMAIN mappings \ {Canon(call'.description)} :
                    k \in DOMAIN mappings' /\ mappings'[k] = mappings[k]
       /\ (call'.op = "add_csv_file" /\ ret'.ok) =>
              \A i \in Range(ret'.val) :
                  Canon(heap'[i].description) \in DOMAIN mappings =>
                      heap'[i].category = mappings[Canon(heap'[i].description)]
      ]_vars

\* an import categorised from what was learned on a description that differs
\* in letter case
C5_Witness ==
    /\ call.op = "add_csv_file" /\ ret.ok
    /\ \E i \in Range(ret.val), j \in 1..Len(heap) :
          /\ j \notin Range(ret.val)
          /\ heap[i].description # heap[j].description
          /\ Canon(heap[i].description) = Canon(heap[j].description)
          /\ Canon(heap[i].description) \in DOMAIN mappings
          /\ heap[i].category = mappings[Canon(heap[i].description)]
          /\ heap[i].category = heap[j].category

\* C6 ----------------------------------------------------------------------
SummaryDone == call.op = "generate_summary" /\ ret # Pending

IsPayment(t) == InList(t.category, PAYMENT_CATEGORIES)
ExpenseOf(t) == IF t.amount < 0 /\ ~IsPayment(t) THEN abs(t.amount) ELSE 0
IncomeOf(t) == IF t.amount >= 0 /\ ~IsPayment(t) THEN t.amount ELSE 0

TotalExpenses(summary) ==
    SumFcn([m \in DOMAIN summary.monthly_data |-> summary.monthly_data[m].expenses])
TotalIncome(summary) ==
    SumFcn([m \in DOMAIN summary.monthly_data |-> summary.monthly_data[m].income])

\* C6: for a transaction list with no Ignore entry, the expense totals of all
\* months add up to the sum of |amount| over the non-payment transactions with
\* amount < 0, and the income totals to the sum of amount over the non-payment
\* transactions with amount >= 0.
C6_TotalsReconcile ==
    (SummaryDone /\ \A t \in Range(call.transactions) : t.category # IGNORE_CATEGORY) =>
        /\ TotalExpenses(ret.val) = SumSeq(call.transactions, ExpenseOf)
        /\ TotalIncome(ret.val) = SumSeq(call.transactions, IncomeOf)

\* two months with expenses, beside a payment of negative amount
C6_Witness ==
    /\ SummaryDone
    /\ \A t \in Range(call.transactions) : t.category # IGNORE_CATEGORY
    /\ \E t \in Range(call.transactions) : t.amount < 0 /\ ~IsPayment(t)
    /\ \E t \in Range(call.transactions) : t.amount < 0 /\ IsPayment(t)
    /\ TotalExpenses(ret.val) > 0

\* C7 ----------------------------------------------------------------------
BucketOf(t) ==
    IF t.category = IGNORE_CATEGORY THEN "none"
    ELSE IF IsPayment(t) THEN "payments"
    ELSE IF t.amount < 0 THEN "expenses"
    ELSE "income"

\* C7: Ignore comes first, then the payment categories whatever the sign, then
\* the sign: each transaction is in the list of its bucket as often as in the
\* input and in no other list, and only Expenses and Income add to the totals.
C7_Classification ==
    SummaryDone =>
        /\ \A t \in Range(call.transactions) :
              /\ Count(ret.val.expenses, t) =
                    IF BucketOf(t) = "expenses" THEN Count(call.transactions, t) ELSE 0
              /\ Count(ret.val.income, t) =
                    IF BucketOf(t) = "income" THEN Count(call.transactions, t) ELSE 0
              /\ Count(ret.val.payments, t) =
                    IF BucketOf(t) = "payments" THEN Count(call.transactions, t) ELSE 0
        /\ Range(ret.val.expenses) \cup Range(ret.val.income) \cup Range(ret.val.payments)
              \subseteq Range(call.transactions)
        /\ LET E(t) == IF BucketOf(t) = "expenses" THEN abs(t.amount) ELSE 0
               I(t) == IF BucketOf(t) = "income" THEN t.amount ELSE 0
           IN  /\ TotalExpenses(ret.val) = SumSeq(call.transactions, E)
               /\ TotalIncome(ret.val) = SumSeq(call.transactions, I)

\* a payment of negative amount beside an ignored transaction
C7_Witness ==
    /\ SummaryDone
    /\ \E t \in Range(ret.val.payments) : t.amount < 0
    /\ \E t \in Range(call.transactions) : t.category = IGNORE_CATEGORY /\ t.amount # 0
    /\ InList(IGNORE_CATEGORY, PAYMENT_CATEGORIES)
    /\ Len(ret.val.payments) = 1

\* C8 ----------------------------------------------------------------------
\* the cell of the only data row that a column selector names: by header name
\* in a header-based file, by position in a headerless one
SelectedCell(file, cfg, col) ==
    IF cfg.has_header
    THEN file[2][CHOOSE i \in 1..Len(file[1]) : file[1][i] = col]
    ELSE file[1][int(col).val + 1]

DebitCreditImport ==
    /\ call.op = "parse_csv_with_callback"
    /\ ret # Pending
    /\ Truthy(call.cfg.debit_col) /\ Truthy(call.cfg.credit_col)
    /\ Len(call.file) = (IF call.cfg.has_header THEN 2 ELSE 1)
    /\ Len(call.file[Len(call.file)]) = Len(FileHeader)
    /\ strptime(call.file[Len(call.file)][1], call.cfg.date_format).ok

CleanedCell(file, cfg, col) ==
    remove_char(remove_char(strip(SelectedCell(file, cfg, col)), "$"), ",")

\* C8: under a debit/credit pair of columns, header-based or headerless, a row
\* gives -|debit| when the cleaned debit is not empty, +|credit| when only the
\* cleaned credit is not empty, and no transaction when both are empty,
\* whatever the inversion flag.
C8_DebitCredit ==
    DebitCreditImport =>
        LET debit == CleanedCell(call.file, call.cfg, call.cfg.debit_col)
            credit == CleanedCell(call.file, call.cfg, call.cfg.credit_col)
        IN  IF debit # <<>>
            THEN float(debit).ok =>
                    ret.ok /\ Len(ret.val) = 1 /\ ret.val[1].amount = -abs(float(debit).val)
            ELSE IF credit # <<>>
            THEN float(credit).ok =>
                    ret.ok /\ Len(ret.val) = 1 /\ ret.val[1].amount = abs(float(credit).val)
            ELSE ret.ok /\ ret.val = <<>>

\* C9 ----------------------------------------------------------------------
Detection == call.op = "detect_bank_format_from_headers"

TrimmedHeaders == {strip(call.headers[i]) : i \in 1..Len(call.headers)}

ColumnsNeeded(fmt) ==
    {fmt.date_col, fmt.desc_col} \cup
    (IF Truthy(fmt.amount_col) THEN {fmt.amount_col}
     ELSE IF Truthy(fmt.debit_col) /\ Truthy(fmt.credit_col)
          THEN {fmt.debit_col, fmt.credit_col} ELSE {})

\* the places of the registry whose format the header pass may return
Candidates ==
    {i \in 1..Len(BANK_FORMATS) :
        /\ BANK_FORMATS[i].val.has_header
        /\ BANK_FORMATS[i].val.name # Custom.name
        /\ ColumnsNeeded(BANK_FORMATS[i].val) \subseteq TrimmedHeaders}

HeaderPassResult ==
    header_pass(1, [i \in 1..Len(call.headers) |-> strip(call.headers[i])])

\* C9: the header pass returns the first format in registry order that has a
\* header row, is not Custom and finds all its columns among the trimmed
\* headers, and nothing when there is none; what it returns is what detection
\* returns.
C9_HeaderPass ==
    Detection =>
        IF Candidates = {}
        THEN HeaderPassResult = NotFound
        ELSE LET k == CHOOSE i \in Candidates : \A j \in Candidates : i <= j
             IN  /\ HeaderPassResult = Some(BANK_FORMATS[k].val)
                 /\ ret.val = Some(BANK_FORMATS[k].val)

\* two formats fit the headers, a headerless format and a Custom with the same
\* columns are registered, and the earlier of the two is returned
C9_Witness ==
    /\ Detection
    /\ Cardinality(Candidates) >= 2
    /\ ret.val = Some(CapitalOne)
    /\ \E i \in 1..Len(BANK_FORMATS) :
          ~BANK_FORMATS[i].val.has_header
          /\ ColumnsNeeded(BANK_FORMATS[i].val) \subseteq TrimmedHeaders

\* C10 ---------------------------------------------------------------------
\* C10: once a format is registered under its name, looking that name up in any
\* letter case returns the format; a name no format carries is not found.
C10_LastWriteWins ==
    /\ (call.op = "add_custom_format" /\ lower(call.key) = lower(call.fmt.name)) =>
          \A name \in LookupNames :
              lower(name) = lower(call.fmt.name) =>
                  get_bank_format_by_name(name) = Some(call.fmt)
    /\ \A name \in LookupNames :
          (\A i \in 1..Len(BANK_FORMATS) : lower(BANK_FORMATS[i].val.name) # lower(name)) =>
              get_bank_format_by_name(name) = NotFound


\* C11 ---------------------------------------------------------------------
\* the ways a format can say where a row's amount is read from
HasAmountColumn(fmt) == Truthy(fmt.amount_col)
HasDebitCreditPair(fmt) == Truthy(fmt.debit_col) /\ Truthy(fmt.credit_col)
WellFormed(fmt) == HasAmountColumn(fmt) # HasDebitCreditPair(fmt)

\* C11: every format the registry holds, and every format detection returns, has
\* exactly one of an amount column or a debit and credit pair.
C11_ExactlyOneAmountSource ==
    /\ \A i \in 1..Len(BANK_FORMATS) : WellFormed(BANK_FORMATS[i].val)
    /\ (call.op = "detect_bank_format_from_headers" /\ ret.val.found) =>
          WellFormed(ret.val.val)

\* C12 ---------------------------------------------------------------------
\* the transactions the last export wrote, in the order of the sheets
Written == call.summary.expenses \o call.summary.income \o call.summary.payments
\* the transactions the load that followed added to the session
Reloaded == SubSeq(heap, Len(heap) - call.loaded + 1, Len(heap))
SummaryReloaded == call.op = "load_existing_summary"

SameButAmount(a, b) ==
    /\ a.date = b.date
    /\ a.description = b.description
    /\ a.category = b.category
    /\ a.source = b.source

\* C12 as stated: every transaction written by the export comes back from the
\* load with its date, description, category, source and amount.
C12_RoundTrip ==
    SummaryReloaded =>
        /\ Len(Reloaded) = Len(Written)
        /\ \A i \in 1..Len(Written) :
              /\ SameButAmount(Reloaded[i], Written[i])
              /\ Reloaded[i].amount = Written[i].amount

\* C12, amended: the amount comes back with its magnitude and the sign of the
\* sheet it was read from (negative for Expenses, positive for Income and
\* Payments), so it is the written amount except for a payment below zero.
C12_RoundTripBucketSign ==
    SummaryReloaded =>
        /\ Len(Reloaded) = Len(Written)
        /\ \A i \in 1..Len(Written) :
              /\ SameButAmount(Reloaded[i], Written[i])
              /\ Reloaded[i].amount =
                    IF i <= Len(call.summary.expenses)
                    THEN -abs(Written[i].amount) ELSE abs(Written[i].amount)
              /\ (Reloaded[i].amount # Written[i].amount) =>
                    /\ InList(Written[i].category, PAYMENT_CATEGORIES)
                    /\ Written[i].amount < 0

\* a payment below zero and an expense were written and read back
C12_Witness ==
    /\ SummaryReloaded
    /\ Len(call.summary.expenses) = 1
    /\ Len(call.summary.payments) = 1
    /\ call.summary.payments[1].amount < 0
    /\ Reloaded[2].amount > 0

\* C13 ---------------------------------------------------------------------
PoolLoaded == call.op = "load_amazon_history" /\ ret.ok

\* C13: a successful load of the order history makes the file's orders the pool,
\* empties the consumed set and leaves every transaction of the session as it
\* was; no step changes the description or the order id of a transaction that
\* exists, and a transaction that a step creates with an order id is bound to an
\* order of the pool of that moment which was not consumed and fits it.
C13_LoadReplacesPool ==
    [][ /\ PoolLoaded' =>
              /\ amazon_orders' = load_orders(call'.file, <<>>).val
              /\ matched_amazon_orders' = {}
              /\ heap' = heap
              /\ all_transactions' = all_transactions
        /\ \A i \in 1..Len(heap) :
              /\ heap'[i].description = heap[i].description
              /\ heap'[i].amazon_order_id = heap[i].amazon_order_id
        /\ \A i \in (Len(heap) + 1)..Len(heap') :
              heap'[i].amazon_order_id.found =>
                  \E o \in Range(amazon_orders) :
                      /\ o.id = heap'[i].amazon_order_id.val
                      /\ o.id \notin matched_amazon_orders
                      /\ o.id \in matched_amazon_orders'
                      /\ DaysFrom(o.date, heap'[i].date) \in 0..7
                      /\ abs(o.total - abs(heap'[i].amount)) < 10
      ]_vars

\* a second pool was loaded over a session holding a transaction bound to an
\* order of the first
C13_Witness ==
    /\ PoolLoaded
    /\ matched_amazon_orders = {}
    /\ \E i \in 1..Len(heap) : heap[i].amazon_order_id.found

\* C14 ---------------------------------------------------------------------
ImportReturned == call.op = "parse_csv_with_callback" /\ ret # Pending /\ ret.ok

TaxonomyKeys == {<<"e", "x", "p", "e", "n", "s", "e", "_", "c", "a", "t", "e", "g", "o", "r", "i", "e", "s">>, <<"i", "n", "c", "o", "m", "e", "_", "c", "a", "t", "e", "g", "o", "r", "i", "e", "s">>, <<"p", "a", "y", "m", "e", "n", "t", "_", "c", "a", "t", "e", "g", "o", "r", "i", "e", "s">>}

IsJsonStrings(value) ==
    /\ value.json = "array"
    /\ \A i \in DOMAIN value.v : value.v[i].json = "string"

IsJsonMapping(value) ==
    /\ value.json = "object"
    /\ \A k \in DOMAIN value.v : value.v[k].json = "string"

\* the document of the store is of the kind save_config writes: an object in
\* which each of the three category keys, where present, holds a list of names
\* and the mappings key, where present, a table from descriptions to names
WellFormedDocument(doc) ==
    /\ doc.json = "object"
    /\ \A k \in TaxonomyKeys \cap DOMAIN doc.v : IsJsonStrings(doc.v[k])
    /\ <<"m", "a", "p", "p", "i", "n", "g", "s">> \in DOMAIN doc.v => IsJsonMapping(doc.v[<<"m", "a", "p", "p", "i", "n", "g", "s">>])

HoldsDefaults ==
    /\ EXPENSE_CATEGORIES = DEFAULT_EXPENSE_CATEGORIES
    /\ INCOME_CATEGORIES = DEFAULT_INCOME_CATEGORIES
    /\ PAYMENT_CATEGORIES = DEFAULT_PAYMENT_CATEGORIES
    /\ mappings = <<>>

\* C15: loading the store never raises, and a store that exists and does not
\* hold a well-formed document leaves the parser with the default category
\* lists and no mappings.
C15_FallsBackToDefaults ==
    call.op = "_load_config" =>
        /\ ret.ok
        /\ (store.exists /\ ~WellFormedDocument(store.doc)) => HoldsDefaults

\* C16 ---------------------------------------------------------------------
LoadedAfterSave == call.op = "_load_config" /\ call.after.op = "save_config"

\* C16: loading the file that save_config has just written gives back the
\* category lists, in their order, and the mappings that were held at the save.
C16_SaveLoadRoundTrip ==
    LoadedAfterSave =>
        /\ EXPENSE_CATEGORIES = call.after.expense
        /\ INCOME_CATEGORIES = call.after.income
        /\ PAYMENT_CATEGORIES = call.after.payment
        /\ mappings = call.after.mapping

\* a taxonomy other than the default one and a table with entries, saved over
\* another document and loaded back
C16_Witness ==
    /\ LoadedAfterSave
    /\ EXPENSE_CATEGORIES = Pets
    /\ INCOME_CATEGORIES # DEFAULT_INCOME_CATEGORIES
    /\ DOMAIN mappings = {<<"w", "h", "o", "l", "e", " ", "f", "o", "o", "d", "s">>, <<"u", "s", "b", " ", "c", "a", "b", "l", "e">>}
    /\ mappings[<<"u", "s", "b", " ", "c", "a", "b", "l", "e">>] = IGNORE_CATEGORY

----------------------------------------------------------------------------
\* the rows of a file whose first field is a date and whose second an amount
ReadableRows(file) ==
    {i \in 1..Len(file) :
        /\ Len(file[i]) >= 5
        /\ strptime(strip(file[i][1]), <<"%", "m", "/", "%", "d", "/", "%", "Y">>).ok
        /\ float(clean_amount(file[i][2])).ok}

HeaderlessImportDone ==
    /\ call.op = "add_csv_file"
    /\ call.picked = WellsFargoBank.name

\* C17: an import under the headerless Wells Fargo Bank configuration, picked
\* by hand or detected, reads every row of the file by column index, the
\* first row included: each row whose date and amount parse gives one
\* transaction, as the parser's headerless reading of the file does.
C17_HeaderlessImportReadsEveryRow ==
    HeaderlessImportDone =>
        /\ ret.ok
        /\ Len(ret.val) = Cardinality(ReadableRows(call.file))
        /\ [i \in 1..Len(ret.val) |-> heap[ret.val[i]]] =
               parse_csv_with_callback(call.file, ConfigOf(WellsFargoBank, Card),
                                       <<>>, {}, <<>>).val

\* C18 ---------------------------------------------------------------------
SingleAmount(cfg) ==
    /\ Truthy(cfg.amount_col)
    /\ ~(Truthy(cfg.debit_col) /\ Truthy(cfg.credit_col))

DataRows(file, cfg) == IF cfg.has_header /\ file # <<>> THEN Tail(file) ELSE file

\* the file holding the row alone, read without a pool
RowAlone(file, cfg, row) ==
    parse_csv_with_callback(IF cfg.has_header THEN <<file[1], row>> ELSE <<row>>,
                            cfg, <<>>, {}, <<>>)

\* the text of the amount field of a row
AmountText(file, cfg, row) ==
    IF cfg.has_header
    THEN row[CHOOSE p \in 1..Len(file[1]) : file[1][p] = cfg.amount_col]
    ELSE row[int(cfg.amount_col).val + 1]

\* the numeric value of an amount text, "(N)" read as -N
AmountValue(text) ==
    LET bare == remove_char(remove_char(remove_char(strip(text), "$"), ","), "\"")
    IN  IF bare # <<>> /\ Head(bare) = "(" /\ bare[Len(bare)] = ")"
        THEN -float(SubSeq(bare, 2, Len(bare) - 1)).val
        ELSE float(bare).val

RECURSIVE ExpectedAmounts(_, _, _)
ExpectedAmounts(file, cfg, rows) ==
    IF rows = <<>> THEN <<>>
    ELSE (IF RowAlone(file, cfg, Head(rows)).val # <<>>
          THEN << (IF cfg.invert_amounts THEN -1 ELSE 1)
                    * AmountValue(AmountText(file, cfg, Head(rows))) >>
          ELSE <<>>)
         \o ExpectedAmounts(file, cfg, Tail(rows))

Inverted(cfg) == [cfg EXCEPT !.invert_amounts = ~@]

\* C18: under a configuration with one amount column, the amounts of the
\* transactions returned are, row by row, the numeric value of the cleaned
\* amount text, "(N)" read as -N, negated once more exactly under the
\* inversion flag; the same import with the flag flipped returns the same
\* transactions but for the sign of the amount.  Header-based and headerless
\* configurations alike.
C18_SingleAmountSign ==
    (ImportReturned /\ SingleAmount(call.cfg)) =>
        /\ [i \in 1..Len(ret.val) |-> ret.val[i].amount] =
               ExpectedAmounts(call.file, call.cfg, DataRows(call.file, call.cfg))
        /\ LET flipped == parse_csv_with_callback(call.file, Inverted(call.cfg),
                                                  amazon_orders, {}, mappings)
           IN  /\ flipped.ok
               /\ flipped.val = [i \in 1..Len(ret.val) |->
                                    [ret.val[i] EXCEPT !.amount = -@]]
               /\ flipped.matched = matched_amazon_orders

\* an inverted import returned a parenthesised amount as a positive one, on
\* the header-based path
C18_Witness ==
    /\ ImportReturned
    /\ SingleAmount(call.cfg)
    /\ call.cfg.invert_amounts
    /\ call.cfg.has_header
    /\ \E i \in 1..Len(ret.val) : ret.val[i].amount = 100005
    /\ \E j \in 2..Len(call.file) : call.file[j][3] = <<"(", "1", "0", "0", ".", "0", "0", "5", ")">>

\* the same on the headerless path
C18_WitnessHeaderless ==
    /\ ImportReturned
    /\ SingleAmount(call.cfg)
    /\ call.cfg.invert_amounts
    /\ ~call.cfg.has_header
    /\ \E i \in 1..Len(ret.val) : ret.val[i].amount = 100005

\* C19 ---------------------------------------------------------------------
Exported == call.op = "export_summary"

Categorized(txn) == txn.category # Uncategorized

\* C19: the summary an export produces leaves out the transactions whose
\* category is "Uncategorized": none of them is in the Expenses, Income or
\* Payments list, and the monthly totals are those of the other transactions.
C19_UncategorizedExcluded ==
    Exported =>
        LET held == [i \in 1..Len(all_transactions) |-> heap[all_transactions[i]]]
            others == generate_summary(SelectSeq(held, Categorized),
                                       EXPENSE_CATEGORIES, PAYMENT_CATEGORIES)
        IN  /\ \A txn \in Range(call.summary.expenses) \cup Range(call.summary.income)
                          \cup Range(call.summary.payments) : Categorized(txn)
            /\ call.summary.monthly_data = others.monthly_data
            /\ call.summary.monthly_expense_breakdown = others.monthly_expense_breakdown

\* C20 ---------------------------------------------------------------------
\* C20: detection is idempotent.  A step that is no registration leaves the
\* registry as it was; what a detection returns is what detection returns on
\* the same headers in the state it leaves, and a detection on the headers of
\* the detection just before it returns the same format, or nothing again.
C20_DetectIdempotent ==
    [][ /\ call'.op # "add_custom_format" => BANK_FORMATS' = BANK_FORMATS
        /\ call'.op = "detect_bank_format_from_headers" =>
              /\ ret' = Ok(detect_bank_format_from_headers(call.headers)')
              /\ (Detection /\ call'.headers = call.headers) => ret' = ret
      ]_vars

\* a format registered at run time was detected
C20_Witness ==
    /\ Detection
    /\ ret.val.found
    /\ \A i \in 1..Len(PredefinedFormats) : PredefinedFormats[i].val # ret.val.val

\* C21 ---------------------------------------------------------------------
RowReconciled == call.op = "_process_row"

\* C21: a row for which reconciliation consumes an order carries that order's
\* id as amazon_order_id and that order's item text as description, an empty
\* item text included; a row left without amazon_order_id keeps its
\* description.
C21_SelectedOrderShown ==
    RowReconciled =>
        /\ \A id \in matched_amazon_orders \ call.matched :
              \E o \in Range(amazon_orders) :
                  /\ o.id = id
                  /\ ret.val.amazon_order_id = Some(id)
                  /\ ret.val.description = o.items
        /\ ~ret.val.amazon_order_id.found => ret.val.description = call.description

\* C22 ---------------------------------------------------------------------
\* C22: in the breakdown of a summary, every month row holds one cell for each
\* expense category and no other, the cell of month m and category c being the
\* sum of |amount| over the Expenses transactions of m that carry c; a month
\* without a row has no such transaction; the expense total of a month is the
\* sum over all its Expenses transactions, those of other categories included.
C22_BreakdownCells ==
    SummaryDone =>
        LET summary == ret.val
            cats == Range(EXPENSE_CATEGORIES)
            months == {month_key_of(t.date) : t \in Range(call.transactions)}
        IN  /\ DOMAIN summary.monthly_expense_breakdown \subseteq months
            /\ \A m \in months, c \in cats :
                  LET InCell(t) == IF month_key_of(t.date) = m /\ t.category = c
                                   THEN abs(t.amount) ELSE 0
                  IN  IF m \in DOMAIN summary.monthly_expense_breakdown
                      THEN summary.monthly_expense_breakdown[m][c] =
                               SumSeq(summary.expenses, InCell)
                      ELSE SumSeq(summary.expenses, InCell) = 0
            /\ \A m \in DOMAIN summary.monthly_expense_breakdown :
                  DOMAIN summary.monthly_expense_breakdown[m] = cats
            /\ \A m \in DOMAIN summary.monthly_data :
                  LET InMonth(t) == IF month_key_of(t.date) = m THEN abs(t.amount) ELSE 0
                  IN  summary.monthly_data[m].expenses = SumSeq(summary.expenses, InMonth)

\* a month with an expense of an expense category and one of a category
\* outside the taxonomy
C22_Witness ==
    /\ SummaryDone
    /\ Len(ret.val.expenses) = 2
    /\ \E t \in Range(ret.val.expenses) : t.category = <<"H", "o", "b", "b", "y">>
    /\ <<"2", "0", "2", "4", "-", "0", "1">> \in DOMAIN ret.val.monthly_expense_breakdown
    /\ ret.val.monthly_expense_breakdown[<<"2", "0", "2", "4", "-", "0", "1">>][<<"G", "r", "o", "c", "e", "r", "i", "e", "s">>] = 5000
    /\ ret.val.monthly_data[<<"2", "0", "2", "4", "-", "0", "1">>].expenses = 10000

\* C23 ---------------------------------------------------------------------
\* C23: a delete_category step changes at most the taxonomy of the type in the
\* box: the transactions, which of them the session holds, the mappings, the
\* store file and the two other taxonomies stay as they were, whether or not a
\* transaction or a mapping carries the removed name.
C23_DeleteCategoryFrame ==
    [][ call'.op = "delete_category" =>
            /\ heap' = heap
            /\ all_transactions' = all_transactions
            /\ mappings' = mappings
            /\ store' = store
            /\ call'.cat_type # "Expense" => EXPENSE_CATEGORIES' = EXPENSE_CATEGORIES
            /\ call'.cat_type # "Income" => INCOME_CATEGORIES' = INCOME_CATEGORIES
            /\ call'.cat_type # "Payment" => PAYMENT_CATEGORIES' = PAYMENT_CATEGORIES
      ]_vars

\* a name was removed that a transaction carries and a mapping points to
C23_Witness ==
    /\ call.op = "delete_category"
    /\ ret.ok
    /\ ~InList(call.cat_name, taxonomy_of(call.cat_type))
    /\ \E i \in 1..Len(all_transactions) : heap[all_transactions[i]].category = call.cat_name
    /\ \E k \in DOMAIN mappings : mappings[k] = call.cat_name

\* C24 ---------------------------------------------------------------------
ReviewActed == call.op \in {"update_transaction_category", "delete_transaction"}

\* C24: the transaction a review action changes or removes is the one that was
\* selected in the review list, also when another transaction of the session
\* has the same date and a description the selected row's text is a prefix of.
C24_ReviewActsOnSelection ==
    ReviewActed => ret.val = call.selection

\* C25 ---------------------------------------------------------------------
WizardAnswered ==
    /\ call.op = "apply_category_direct"
    /\ pending_categorizations = <<>>

\* C25: when files were imported and every pending description was given a
\* category, none skipped, no transaction of the session is left
\* "Uncategorized", one whose description differs from a pending one by
\* letter case only included.
C25_NoneLeftUncategorized ==
    WizardAnswered =>
        \A i \in 1..Len(all_transactions) :
            heap[all_transactions[i]].category # Uncategorized

\* C26 ---------------------------------------------------------------------
\* the transactions of the session, imported since the pool was loaded, that
\* carry the order id
CarriersOf(id) ==
    {k \in 1..Len(all_transactions) :
        /\ all_transactions[k] \in SincePoolLoaded
        /\ heap[all_transactions[k]].amazon_order_id = Some(id)}

\* C26: every consumed order id is carried by exactly one transaction of the
\* session imported since the order history was loaded, whatever imports
\* (failed ones included), deletions and category edits took place.
C26_ConsumedIsCarried ==
    \A id \in matched_amazon_orders : Cardinality(CarriersOf(id)) = 1

\* the wizard's list and index between two events
WizardConsistent ==
    \/ pending_categorizations = <<>> /\ current_categorization_index = 0
    \/ /\ 0 <= current_categorization_index
       /\ current_categorization_index < Len(pending_categorizations)

\* what one event does to the wizard's list and index
WizardStep ==
    /\ WizardConsistent'
    /\ call'.op \in {"apply_category_direct", "skip_categorization"} =>
           IF current_categorization_index + 1 < Len(pending_categorizations)
           THEN /\ current_categorization_index' = current_categorization_index + 1
                /\ pending_categorizations' = pending_categorizations
           ELSE /\ current_categorization_index' = 0
                /\ pending_categorizations' = <<>>
    /\ call'.op = "add_csv_file" =>
           /\ current_categorization_index' = current_categorization_index
           /\ Len(pending_categorizations') >= Len(pending_categorizations)
           /\ SubSeq(pending_categorizations', 1, Len(pending_categorizations)) =
                  pending_categorizations

\* C27: between two events the wizard's list is empty and its index 0, or the
\* index is a position of the list; apply_category_direct and
\* skip_categorization advance the index by exactly one, and empty the list
\* and reset the index to 0 when the index reaches the length of the list;
\* add_csv_file only appends to the list and leaves the index alone.
C27_WizardIndex == [][WizardStep]_vars

\* the wizard holds the entries of the imports so far and a skip has just
\* advanced it from the first entry to the last one appended
C27_Witness ==
    /\ call.op = "skip_categorization"
    /\ current_categorization_index = 1
    /\ Len(pending_categorizations) = 2
    /\ pending_categorizations[2] = Len(heap)
    /\ Len(all_transactions) = 2

\* C28: the three default lists of the class are the ones it was defined with
\* after any sequence of _load_config, add_category and delete_category, so
\* that _use_defaults yields the original taxonomy. Violated: _load_config
\* hands the class's own list to the instance for a key the file lacks, and
\* add_category and delete_category change that list in place.
C28_DefaultsNeverChange ==
    /\ class_defaults = DefaultLists
    /\ call.op = "_use_defaults" =>
           /\ EXPENSE_CATEGORIES = DEFAULT_EXPENSE_CATEGORIES
           /\ INCOME_CATEGORIES = DEFAULT_INCOME_CATEGORIES
           /\ PAYMENT_CATEGORIES = DEFAULT_PAYMENT_CATEGORIES

\* C29 ---------------------------------------------------------------------
\* the rows of a sheet under its header row
SheetRows(sheet) == Range(Tail(sheet))

\* C29: in one exported workbook, every month with a row in the monthly
\* summary whose Total Expenses is not zero has a row in the expense
\* breakdown, and the trailing Total of that row equals those Total Expenses.
\* Violated: an expense whose category is outside the expense taxonomy counts
\* in the monthly summary and in no cell of the breakdown.
C29_MonthlyTablesAgree ==
    Exported =>
        \A s \in SheetRows(ret.val.MonthlySummary) :
            s[3] # 0 =>
                \E b \in SheetRows(ret.val.MonthlyExpenseBreakdown) :
                    /\ b[1] = s[1]
                    /\ b[Len(b)] = s[3]

\* C30 ---------------------------------------------------------------------
\* C30: get_bank_format(k) called right after add_custom_format(k, f) returns
\* f, whatever the letter case of k. Violated: add_custom_format stores under
\* k as given and get_bank_format looks up the lower-cased k.
C30_AddedIsRetrievable ==
    [][ ( /\ call.op = "add_custom_format"
          /\ call'.op = "get_bank_format"
          /\ call'.key = call.key ) => ret' = Ok(Some(call.fmt)) ]_vars

====
